---- MODULE Spec2Model ----
(***************************************************************************)
(* A model of the task and workflow orchestrator of house_victoria_mcp.tt: *)
(* TaskManager (tt/task_manager.py) and WorkflowEngine                     *)
(* (tt/workflow_engine.py), run on one asyncio event loop.  A handler runs *)
(* atomically from one suspension point to the next, so every action below *)
(* is one such run: a caller's call of a manager method (none of which     *)
(* suspends), or one resumption of an execution unit.                      *)
(***************************************************************************)
EXTENDS Integers, Sequences, FiniteSets, TLC

(* ------------------------------ bounds -------------------------------- *)

\* The last reading of the clock (datetime.now()); readings are 0..MaxClock.
MaxClock == 1
\* The most records of the task table and execution units (asyncio tasks)
\* launched by execute_task, taken together.
MaxLoad == 3
\* The longest dependency list given to create_task.
MaxDeps == 2
\* The most update_task_status and delete_task calls callers make on tasks of
\* the table.
MaxCalls == 2
\* The most pause, cancel and delete calls callers make on workflows.
MaxWfCalls == 1
\* The most pause and cancel calls of callers that only pause and cancel.
MaxStopCalls == 2
\* The most steps of a workflow.
MaxSteps == 2
\* The longest depends_on list of a step.
MaxStepDeps == 1
\* The longest depends_on list of a step that may name any step.
MaxAnyDeps == 2
\* The most workflows callers create.
MaxWorkflows == 1
\* The most execute_workflow calls that launch a unit.
MaxWfUnits == 1
\* The most sub-steps a Parallel step declares.
MaxSubs == 2
\* The most meters callers create, and the most steps of a meter.
MaxMeters == 1
MaxTotalSteps == 2
\* The most callbacks callers register.
MaxCallbacks == 2
\* The most update_progress and delete_meter calls callers make on meters of
\* the table.
MaxMeterCalls == 2
\* The most tasks of a table list_tasks is called on.
MaxListed == 2
\* The most update_progress calls of the callers that start and restart a meter.
MaxStartCalls == 3
\* The most execute_workflow calls of the callers that execute a workflow again.
MaxReUnits == 2

(* --------------------------- values and ids --------------------------- *)

\* Python's Optional: None, or a value.
None == << >>
Some(x) == <<x>>
IsSet(o) == o # None

\* The names given to create_task.
Names == {"a"}

\* sha256(f"{name}_{timestamp}")[:16]: the digest is modelled by the pair it
\* digests, so two creates get one id exactly when name and clock reading agree.
GenerateTaskId(name, now) == <<name, now>>

AllIds == {GenerateTaskId(n, t) : n \in Names, t \in 0..MaxClock}
NoId == <<"", 0>>
\* An id no create ever returns.
UnknownId == <<"unknown", 0>>

PENDING == "pending"
IN_PROGRESS == "in_progress"
COMPLETED == "completed"
FAILED == "failed"
CANCELLED == "cancelled"
TaskStatus == {PENDING, IN_PROGRESS, COMPLETED, FAILED, CANCELLED}

\* What an execution function returns: None, 0 and a non-zero number stand for
\* Python's falsy and truthy values.
FnValues == {"None", "0", "7"}
Truthy(v) == v \notin {"None", "0"}

\* A Python dict, as the set of its items.
EmptyDict == {}
DataDict(v) == {<<"data", v>>}

\* str(e) of the exception an execution function raises.
FnErrorText == "boom"
\* An error text a caller passes to update_task_status.
CallerErrorText == "caller"
DepsErrorText == "Dependencies not completed: "
Msg(text, ids) == [text |-> text, ids |-> ids]

(* ------------------------------- state -------------------------------- *)

VARIABLES
    clock,      \* the reading of datetime.now()
    tasks,      \* TaskManager.tasks: id -> Task
    running,    \* TaskManager._running_tasks: id -> unit
    units,      \* the asyncio tasks execute_task created, in creation order
    calls,      \* how many update and delete calls callers have made (bounded)
    workflows,  \* WorkflowEngine.workflows: id -> Workflow (an index of wfObjs)
    wfObjs,     \* the Workflow objects ever created, in creation order
    wfRunning,  \* WorkflowEngine._running_workflows: id -> unit
    wfUnits,    \* the asyncio tasks execute_workflow created, in creation order
    meters,     \* ProgressTracker.meters: id -> ProgressMeter (an index of meterObjs)
    meterObjs,  \* the ProgressMeter objects ever created, in creation order
    callbacks,  \* ProgressTracker._callbacks, in registration order
    ptCalls,    \* the update_progress calls that reached their callbacks
    listed,     \* a task table in insertion order and a list_tasks call on it
    lastOp      \* the operation that produced this state (history)

tmVars == <<clock, tasks, running, units>>
wfVars == <<workflows, wfObjs, wfRunning, wfUnits>>
ptVars == <<meters, meterObjs, callbacks, ptCalls>>

\* The task manager's mutable state as one value, for the methods below.
Mgr == [tasks |-> tasks, running |-> running, units |-> units]

Put(f, k, v) == [x \in DOMAIN f \cup {k} |-> IF x = k THEN v ELSE f[x]]
Drop(f, k) == [x \in DOMAIN f \ {k} |-> f[x]]

\* Task(...) as create_task builds it: the dataclass defaults for the rest.
NewTask(deps) ==
    [status |-> PENDING, progress |-> 0, completed_at |-> None,
     result |-> None, error |-> None, dependencies |-> deps]

\* asyncio.Task.cancel(): a no-op on a finished task; otherwise CancelledError
\* is thrown into the coroutine at its next resumption.
Cancel(us, u) ==
    IF us[u].pc = "done" THEN us ELSE [us EXCEPT ![u].must_cancel = TRUE]

Clamp(p) == IF p < 0 THEN 0 ELSE IF p > 100 THEN 100 ELSE p

\* CompleteEffects with the handle left registered (the del forgotten).
CompleteEffects_KeepHandle(m, task_id, now) ==
    [tasks |-> [m.tasks EXCEPT ![task_id].completed_at = Some(now),
                               ![task_id].progress = 100],
     running |-> m.running,
     units |-> IF task_id \in DOMAIN m.running
               THEN Cancel(m.units, m.running[task_id])
               ELSE m.units]

\* update_task_status, lines 154-161: completing stamps completed_at, forces
\* progress 100 and stops the registered unit.
CompleteEffects(m, task_id, now) ==
    [tasks |-> [m.tasks EXCEPT ![task_id].completed_at = Some(now),
                               ![task_id].progress = 100],
     running |-> Drop(m.running, task_id),
     units |-> IF task_id \in DOMAIN m.running
               THEN Cancel(m.units, m.running[task_id])
               ELSE m.units]

\* AssignFields with the error assigned unconditionally (the None test
\* forgotten).
AssignFields_ClearError(t, status, progress, result, error) ==
    [t EXCEPT !.status = status,
              !.progress = IF IsSet(progress) THEN Clamp(progress[1]) ELSE @,
              !.result = IF IsSet(result) THEN result ELSE @,
              !.error = error]

\* update_task_status, lines 142-152: the fields a call assigns.
AssignFields(t, status, progress, result, error) ==
    [t EXCEPT !.status = status,
              !.progress = IF IsSet(progress) THEN Clamp(progress[1]) ELSE @,
              !.result = IF IsSet(result) THEN result ELSE @,
              !.error = IF IsSet(error) THEN error ELSE @]

\* TaskManager.update_task_status on manager state m.
update_task_status(m, task_id, status, progress, result, error, now) ==
    IF task_id \notin DOMAIN m.tasks THEN m
    ELSE LET m1 == [m EXCEPT !.tasks[task_id] =
                        AssignFields(@, status, progress, result, error)]
         IN  IF status = COMPLETED THEN CompleteEffects(m1, task_id, now) ELSE m1

\* PendingDeps that skips the ids missing from the table.
PendingDeps_IgnoreUnknown(ts, deps) ==
    LET Unmet(d) == d \in DOMAIN ts /\ ts[d].status # COMPLETED
    IN  SelectSeq(deps, Unmet)

\* PendingDeps that only asks whether the dependency exists.
PendingDeps_IgnoreStatus(ts, deps) ==
    LET Unmet(d) == d \notin DOMAIN ts
    IN  SelectSeq(deps, Unmet)

\* execute_task, lines 254-258: the dependencies that are unknown or not
\* completed, in the order of the dependency list.
PendingDeps(ts, deps) ==
    LET Unmet(d) == d \notin DOMAIN ts \/ ts[d].status # COMPLETED
    IN  SelectSeq(deps, Unmet)

\* execute_task, line 261: the ids joined into the message.
DepsErrorMsg(pending) == Msg(DepsErrorText, pending)

\* WrapResult that wraps every value.
WrapResult_Always(v) == DataDict(v)

\* _execute_wrapper, line 280.
WrapResult(v) == IF Truthy(v) THEN DataDict(v) ELSE EmptyDict

\* TaskManager.create_task on manager state m.
create_task(m, name, deps, now) ==
    [m EXCEPT !.tasks = Put(@, GenerateTaskId(name, now), NewTask(deps))]

NewUnit(task_id) == [task |-> task_id, pc |-> "new", must_cancel |-> FALSE]
\* A unit whose coroutine has ended: nothing reads its task or flag again.
DoneUnit == [task |-> NoId, pc |-> "done", must_cancel |-> FALSE]

\* TaskManager.execute_task on manager state m, up to its return: the unit it
\* creates runs later.
execute_task(m, task_id, now) ==
    IF task_id \notin DOMAIN m.tasks THEN m
    ELSE LET pending == PendingDeps(m.tasks, m.tasks[task_id].dependencies)
         IN  IF pending # << >>
             THEN update_task_status(m, task_id, PENDING, None, None,
                                     Some(DepsErrorMsg(pending)), now)
             ELSE LET m1 == update_task_status(m, task_id, IN_PROGRESS, Some(0),
                                               None, None, now)
                  IN  [m1 EXCEPT !.units = Append(@, NewUnit(task_id)),
                                 !.running = Put(@, task_id, Len(m1.units) + 1)]

Op(name, id, unit, arg) == [op |-> name, id |-> id, unit |-> unit, arg |-> arg]

Load == Cardinality(DOMAIN tasks) + Len(units)

SetMgr(m) ==
    /\ tasks' = m.tasks
    /\ running' = m.running
    /\ units' = m.units

(* ------------------------- the callers' calls ------------------------- *)

\* The clock advances between two calls.
Tick ==
    /\ clock < MaxClock
    /\ clock' = clock + 1
    /\ lastOp' = Op("tick", NoId, 0, "")
    /\ UNCHANGED <<listed, tasks, running, units, wfVars, ptVars>>

\* TaskManager.create_task(name, dependencies=deps).
CreateTask(name, deps) ==
    LET task_id == GenerateTaskId(name, clock)
    IN  /\ tasks' = Put(tasks, task_id, NewTask(deps))
        /\ lastOp' = Op("create", task_id, 0, "")
        /\ UNCHANGED <<listed, clock, running, units, wfVars, ptVars>>

\* TaskManager.update_task_status, called by a caller.
UpdateTaskStatus(task_id, status, progress, result, error) ==
    /\ SetMgr(update_task_status(Mgr, task_id, status, progress, result, error, clock))
    /\ lastOp' = Op(IF task_id \in DOMAIN tasks THEN "update" ELSE "update_none",
                    task_id, 0, "")
    /\ UNCHANGED <<listed, clock, wfVars, ptVars>>

\* TaskManager.delete_task.
DeleteTask(task_id) ==
    /\ IF task_id \in DOMAIN tasks
       THEN /\ tasks' = Drop(tasks, task_id)
            /\ running' = Drop(running, task_id)
            /\ units' = IF task_id \in DOMAIN running
                        THEN Cancel(units, running[task_id]) ELSE units
            /\ lastOp' = Op("delete", task_id, 0, "true")
       ELSE /\ UNCHANGED <<tasks, running, units>>
            /\ lastOp' = Op("delete", task_id, 0, "false")
    /\ UNCHANGED <<listed, clock, wfVars, ptVars>>

\* TaskManager.execute_task, called by a caller.
ExecuteTask(task_id) ==
    LET m == execute_task(Mgr, task_id, clock)
    IN  /\ Cardinality(DOMAIN m.tasks) + Len(m.units) <= MaxLoad
        /\ SetMgr(m)
        /\ lastOp' = IF task_id \notin DOMAIN tasks
                      THEN Op("execute_none", task_id, 0, "")
                      ELSE IF Len(m.units) = Len(units)
                      THEN Op("execute_declined", task_id, 0, "")
                      ELSE Op("execute_launched", task_id, Len(m.units), "")
        /\ UNCHANGED <<listed, clock, wfVars, ptVars>>

(* ----------------------------- list_tasks ---------------------------- *)

LOW == "low"
MEDIUM == "medium"
HIGH == "high"
URGENT == "urgent"
TaskPriority == {LOW, MEDIUM, HIGH, URGENT}

\* The priority_order dict of line 207.
priority_order(p) ==
    CASE p = URGENT -> 0 [] p = HIGH -> 1 [] p = MEDIUM -> 2 [] p = LOW -> 3

\* A Task as list_tasks reads it; id is its place in the table.
ListedTask(id, status, priority, created_at, assigned_to, workflow_id, tags) ==
    [id |-> id, status |-> status, priority |-> priority,
     created_at |-> created_at, assigned_to |-> assigned_to,
     workflow_id |-> workflow_id, tags |-> tags]

\* The tests "if assigned_to:", "if workflow_id:" and "if tags:": None, the
\* empty string and the empty list are false.  The members of TaskStatus and
\* TaskPriority are non-empty strings, so "if status:" is "is not None".
TruthyText(arg) == IsSet(arg) /\ arg[1] # ""
TruthyList(arg) == IsSet(arg) /\ arg[1] # {}

\* The key of line 208, and the order of Python's tuples.
SortKey(t) == <<priority_order(t.priority), t.created_at>>
KeyLess(a, b) == a[1] < b[1] \/ (a[1] = b[1] /\ a[2] < b[2])

RECURSIVE InsertSorted(_, _)
\* list.sort is stable: an element goes behind the elements that came before
\* it whose key is not greater than its own.
InsertSorted(sorted, t) ==
    IF sorted = << >> THEN <<t>>
    ELSE IF KeyLess(SortKey(t), SortKey(Head(sorted)))
    THEN <<t>> \o sorted
    ELSE <<Head(sorted)>> \o InsertSorted(Tail(sorted), t)

RECURSIVE StableSort(_)
StableSort(ts) ==
    IF ts = << >> THEN << >>
    ELSE InsertSorted(StableSort(SubSeq(ts, 1, Len(ts) - 1)), ts[Len(ts)])

\* TaskManager.list_tasks on the table values in insertion order; the lists
\* of tags are kept as sets.
list_tasks(table, status, priority, assigned_to, workflow_id, tags) ==
    LET Keep(t) ==
            /\ IsSet(status) => t.status = status[1]
            /\ IsSet(priority) => t.priority = priority[1]
            /\ TruthyText(assigned_to) => t.assigned_to = assigned_to
            /\ TruthyText(workflow_id) => t.workflow_id = workflow_id
            /\ TruthyList(tags) => t.tags \cap tags[1] # {}
    IN  StableSort(SelectSeq(table, Keep))

\* A caller calls list_tasks with the filters args on the table.
ListTasks(args) ==
    /\ listed # None
    /\ listed.args = None
    /\ listed' = [listed EXCEPT
                    !.args = Some(args),
                    !.result = Some(list_tasks(listed.table, args.status,
                                               args.priority, args.assigned_to,
                                               args.workflow_id, args.tags))]
    /\ lastOp' = Op("list", NoId, 0, "")
    /\ UNCHANGED <<tmVars, wfVars, ptVars, calls>>

(* ------------------- the execution unit's resumptions ----------------- *)

\* The unit's first step.  Cancelled before it, the coroutine never runs (the
\* CancelledError is thrown before its try); otherwise it calls
\* execution_func(task), which suspends.
UnitStart(u) ==
    /\ u \in 1..Len(units)
    /\ units[u].pc = "new"
    /\ IF units[u].must_cancel
       THEN /\ units' = [units EXCEPT ![u] = DoneUnit]
            /\ lastOp' = Op("unit_unstarted", units[u].task, u, "")
       ELSE /\ units' = [units EXCEPT ![u].pc = "awaiting"]
            /\ lastOp' = Op("unit_started", units[u].task, u, "")
    /\ UNCHANGED <<listed, clock, tasks, running, wfVars, ptVars>>

\* One outcome of the wrapper, applied by update_task_status; the wrapper then
\* finishes.
UnitFinish(u, status, progress, result, error, op, arg) ==
    LET m == update_task_status(Mgr, units[u].task, status, progress, result,
                                error, clock)
    IN  /\ tasks' = m.tasks
        /\ running' = m.running
        /\ units' = [m.units EXCEPT ![u] = DoneUnit]
        /\ lastOp' = Op(op, units[u].task, u, arg)
        /\ UNCHANGED <<listed, clock, wfVars, ptVars>>

\* execution_func returns v: lines 273-283.
UnitReturn(u, v) ==
    /\ u \in 1..Len(units)
    /\ units[u].pc = "awaiting"
    /\ ~units[u].must_cancel
    /\ UnitFinish(u, COMPLETED, Some(100), Some(WrapResult(v)), None,
                  "unit_returned", v)

\* execution_func raises an exception: lines 289-292.
UnitRaise(u) ==
    /\ u \in 1..Len(units)
    /\ units[u].pc = "awaiting"
    /\ ~units[u].must_cancel
    /\ UnitFinish(u, FAILED, None, None, Some(Msg(FnErrorText, << >>)),
                  "unit_raised", "")

\* The unit, cancelled while suspended in execution_func, is resumed with
\* CancelledError: lines 285-287.
UnitCancelled(u) ==
    /\ u \in 1..Len(units)
    /\ units[u].pc = "awaiting"
    /\ units[u].must_cancel
    /\ UnitFinish(u, CANCELLED, None, None, None, "unit_cancelled", "")

(* ------------------------- the workflow engine ------------------------ *)

\* The members of the WorkflowStatus enumeration, by name.
WorkflowStatus ==
    [PENDING |-> "pending", RUNNING |-> "running", PAUSED |-> "paused",
     COMPLETED |-> "completed", FAILED |-> "failed", CANCELLED |-> "cancelled"]
WS_PENDING == WorkflowStatus["PENDING"]
WS_RUNNING == WorkflowStatus["RUNNING"]
WS_PAUSED == WorkflowStatus["PAUSED"]
WS_COMPLETED == WorkflowStatus["COMPLETED"]
WS_FAILED == WorkflowStatus["FAILED"]
WS_CANCELLED == WorkflowStatus["CANCELLED"]

\* sha256(f"{name}_{timestamp}")[:16], modelled as GenerateTaskId is.
GenerateWorkflowId(name, now) == <<name, now>>
AllWorkflowIds == {GenerateWorkflowId(n, t) : n \in Names, t \in 0..MaxClock}

\* The steps a caller declares, by step_type and step_config:
\*   task              TASK without execution_func
\*   task_fn           TASK with execution_func
\*   tool              TOOL_CALL of a registered tool that returns
\*   tool_raises       TOOL_CALL of a registered tool that raises
\*   tool_missing      TOOL_CALL of a name the registry lacks
\*   delay             DELAY
\*   condition         CONDITION with a predicate that returns
\*   condition_missing CONDITION without a predicate
StepKinds == {"task", "task_fn", "tool", "tool_raises", "tool_missing",
              "delay", "condition", "condition_missing"}
\* A PARALLEL step is of kind "parallel" and declares its sub-steps, each of
\* one of the kinds above, in step_config["steps"].

\* str(e) of the exceptions _execute_step catches.  The tool_name of a step is
\* modelled by the position of the step: <<i>> for top-level step i, <<i, k>>
\* for sub-step k of step i.
ToolNotFoundText == "Tool not found: "
ToolNotFound(tool_name) == Msg(ToolNotFoundText, tool_name)
\* str(e) of the ValueError of line 253, which names nothing.
NoConditionText == Msg("Condition function not provided", << >>)
\* str(e) of the exception a registered tool raises.
ToolErrorText == Msg("tool error", << >>)

\* The step declared at position i has id i; no step has id UnknownStep.
UnknownStep == 0

\* WorkflowStep(...) as a caller builds it: the dataclass defaults for the rest.
NewStep(id, name, kind, depends_on) ==
    [id |-> id, name |-> name, kind |-> kind, depends_on |-> depends_on,
     subs |-> << >>, status |-> PENDING, result |-> None, error |-> None]

\* A PARALLEL step whose step_config["steps"] declares sub-steps of the kinds
\* subs.
NewParallelStep(id, name, depends_on, subs) ==
    [NewStep(id, name, "parallel", depends_on) EXCEPT !.subs = subs]

\* (a / b) * 100 in floating point, kept as the exact fraction 100a / b; it
\* is 100.0 exactly when a = b.
Percent(a, b) == [num |-> 100 * a, den |-> b]
ZeroPercent == [num |-> 0, den |-> 1]
IsHundred(p) == p.num = 100 * p.den

\* Workflow(...) as create_workflow builds it.
NewWorkflow(workflow_id, steps, now) ==
    [id |-> workflow_id, steps |-> steps, status |-> WS_PENDING,
     created_at |-> now, started_at |-> None, completed_at |-> None,
     progress |-> ZeroPercent]

\* The future asyncio.gather returns: pending, or done with the first
\* exception of a sub-unit, with CancelledError, or with the list of results.
NoGather == [state |-> "none", error |-> None]
PendingGather == [state |-> "pending", error |-> None]

\* The asyncio task gather makes of execute_parallel_step(s) for a declared
\* sub-step of kind kind: where it is suspended, the fields of the WorkflowStep
\* it builds, how it ended and what it returned.
NewSubUnit(kind) ==
    [kind |-> kind, pc |-> "new", status |-> PENDING, result |-> None,
     error |-> None, ended |-> "", returned |-> None]

\* The asyncio task of _execute_workflow_task(workflow, ...): the workflow
\* object it holds, where it is suspended (pc, step i, dependency d) and the
\* steps it has passed to _execute_step so far (history); the sub-units of
\* the gather it last awaited, and that gather's future.
NewWfUnit(o) ==
    [wf |-> o, pc |-> "new", i |-> 0, d |-> 0, ran |-> << >>,
     must_cancel |-> FALSE, subs |-> << >>, outer |-> NoGather]

\* _get_step_by_id and the test of line 169: the dependency is missing or not
\* completed.
DepUnmet(w, dep_id) ==
    LET found == {j \in 1..Len(w.steps) : w.steps[j].id = dep_id}
    IN  \/ found = {}
        \/ w.steps[CHOOSE j \in found : \A k \in found : j <= k].status # COMPLETED

\* A run of the unit is a value c: the workflow object w, the task manager m,
\* the registry reg (_running_workflows) and the unit u, with the outcome of
\* the run in op and arg.
Suspend(c, pc, i, d) ==
    [c EXCEPT !.u.pc = pc, !.u.i = i, !.u.d = d,
              !.op = "wf_suspended", !.arg = pc]

\* finally, line 192: del self._running_workflows[workflow.id], which raises
\* KeyError when the key is gone; the coroutine then ends.
Deregister(c, op, raised) ==
    [c EXCEPT !.reg = Drop(@, c.w.id),
              !.u.pc = "done", !.u.i = 0, !.u.d = 0,
              !.op = op,
              !.arg = IF c.w.id \in DOMAIN c.reg THEN raised ELSE "KeyError"]

\* Lines 179-181.
Complete(c, now) ==
    Deregister([c EXCEPT !.w.status = WS_COMPLETED,
                         !.w.completed_at = Some(now)],
               "wf_completed", "")

\* OnCancelled that records the cancellation as a failure.
OnCancelled_Failed(c) ==
    Deregister([c EXCEPT !.w.status = WS_FAILED], "wf_cancelled", "")

\* except asyncio.CancelledError, lines 183-185.
OnCancelled(c) ==
    Deregister([c EXCEPT !.w.status = WS_CANCELLED], "wf_cancelled", "")

\* except Exception, lines 187-189: the handler looks up WorkflowStatus.FALED,
\* which raises AttributeError when the enumeration has no such member.
OnException(c) ==
    IF "FALED" \in DOMAIN WorkflowStatus
    THEN Deregister([c EXCEPT !.w.status = WorkflowStatus["FALED"]],
                    "wf_failed", "")
    ELSE Deregister(c, "wf_failed", "AttributeError")

\* StepFails that loses the message of the exception.
StepFails_NoMessage(c, i, text) ==
    OnException([c EXCEPT !.w.steps[i].status = FAILED])

\* _execute_step, lines 280-284, and the exception reaching the workflow.
StepFails(c, i, text) ==
    OnException([c EXCEPT !.w.steps[i].status = FAILED,
                          !.w.steps[i].error = Some(text)])

\* StepDone that leaves the step InProgress.
StepDone_KeepStatus(c, i, result) ==
    [c EXCEPT !.w.steps[i].result = Some(result)]

\* _execute_step: the result and status a branch assigns on success.
StepDone(c, i, result) ==
    [c EXCEPT !.w.steps[i].result = Some(result),
              !.w.steps[i].status = COMPLETED]

\* Line 275: the dict the results of gather are recorded in.
ParallelResults(results) == {<<"parallel_results", results>>}

\* What the coroutine _execute_step returns when it does not raise: it has no
\* return statement, so None, whatever it stored in step.result.
StepReturn(result) == None

RECURSIVE RunLoop(_, _, _, _)
RECURSIVE execute_step(_, _, _)
RECURSIVE AfterStep(_, _, _)

RECURSIVE RunLoop_Blocking(_, _, _, _)
\* RunLoop that polls a dependency again until it is completed.
RunLoop_Blocking(c, i, d, now) ==
    IF i > Len(c.w.steps) THEN Complete(c, now)
    ELSE IF /\ c.u.pc = "dep_sleep" /\ c.u.i = i /\ c.u.d = d - 1
            /\ DepUnmet(c.w, c.w.steps[i].depends_on[d - 1])
    THEN Suspend(c, "dep_sleep", i, d - 1)
    ELSE IF d <= Len(c.w.steps[i].depends_on)
    THEN IF DepUnmet(c.w, c.w.steps[i].depends_on[d])
         THEN Suspend(c, "dep_sleep", i, d)
         ELSE RunLoop_Blocking(c, i, d + 1, now)
    ELSE execute_step(c, i, now)

\* _execute_workflow_task, lines 165-172, from dependency d of step i on: an
\* unmet dependency suspends the unit in sleep(1), and the continue goes on to
\* the next dependency.  After the last step come lines 179-181.
RunLoop(c, i, d, now) ==
    IF i > Len(c.w.steps) THEN Complete(c, now)
    ELSE IF d <= Len(c.w.steps[i].depends_on)
    THEN IF DepUnmet(c.w, c.w.steps[i].depends_on[d])
         THEN Suspend(c, "dep_sleep", i, d)
         ELSE RunLoop(c, i, d + 1, now)
    ELSE execute_step(c, i, now)

\* _execute_step on step i, up to its first suspension.
execute_step(c, i, now) ==
    LET step == c.w.steps[i]
        c1 == [c EXCEPT !.w.steps[i].status = IN_PROGRESS,
                        !.u.ran = Append(@, i)]
        task_id == GenerateTaskId(step.name, now)
    IN  CASE step.kind = "task" ->
               AfterStep(StepDone([c1 EXCEPT !.m = create_task(@, step.name, << >>, now)],
                                  i, "task_id"), i, now)
          [] step.kind = "task_fn" ->
               AfterStep(StepDone([c1 EXCEPT !.m = execute_task(
                                       create_task(@, step.name, << >>, now),
                                       task_id, now)],
                                  i, "task"), i, now)
          [] step.kind = "tool_missing" -> StepFails(c1, i, ToolNotFound(<<i>>))
          [] step.kind \in {"tool", "tool_raises"} -> Suspend(c1, "tool", i, 0)
          [] step.kind = "delay" -> Suspend(c1, "delay", i, 0)
          [] step.kind = "condition" ->
               AfterStep(StepDone(c1, i, "condition_result"), i, now)
          [] step.kind = "condition_missing" -> StepFails(c1, i, NoConditionText)
          [] step.kind = "parallel" ->
               IF step.subs = << >>
               THEN AfterStep(StepDone(c1, i, ParallelResults(<< >>)), i, now)
               ELSE Suspend([c1 EXCEPT !.u.subs = [k \in DOMAIN step.subs |->
                                                     NewSubUnit(step.subs[k])],
                                       !.u.outer = PendingGather],
                            "gather", i, 0)

\* Lines 176-177, steps_executed being i - 1 when step i returns, and the next
\* turn of the loop.
AfterStep(c, i, now) ==
    RunLoop([c EXCEPT !.w.progress = Percent(i, Len(c.w.steps))], i + 1, 1, now)

\* One resumption of the unit, up to its next suspension or its end.
\* Cancelled before its first step the coroutine never runs, so no handler and
\* no finally runs; cancelled while suspended it is resumed with
\* CancelledError, which _execute_step's except Exception does not catch.
Resume(c, now) ==
    CASE c.u.pc = "new" ->
           IF c.u.must_cancel
           THEN [c EXCEPT !.u.pc = "done", !.op = "wf_unstarted"]
           ELSE RunLoop(c, 1, 1, now)
      [] c.u.pc # "new" /\ c.u.must_cancel -> OnCancelled(c)
      [] c.u.pc = "dep_sleep" /\ ~c.u.must_cancel ->
           RunLoop(c, c.u.i, c.u.d + 1, now)
      [] c.u.pc = "delay" /\ ~c.u.must_cancel ->
           AfterStep(StepDone(c, c.u.i, "delayed"), c.u.i, now)
      [] c.u.pc = "tool" /\ ~c.u.must_cancel ->
           IF c.w.steps[c.u.i].kind = "tool"
           THEN AfterStep(StepDone(c, c.u.i, "tool_result"), c.u.i, now)
           ELSE StepFails(c, c.u.i, ToolErrorText)
      [] c.u.pc = "gather" /\ ~c.u.must_cancel ->
           IF c.u.outer.state = "exception"
           THEN StepFails(c, c.u.i, c.u.outer.error[1])
           ELSE AfterStep(StepDone(c, c.u.i, ParallelResults(
                              [k \in DOMAIN c.u.subs |-> c.u.subs[k].returned])),
                          c.u.i, now)

\* The name of a declared sub-step: the default of s.get("name", ...).
SubStepName == "Parallel Step"

\* gather's callback for sub-unit k of unit u, which has just ended: the first
\* exception settles the future at once, the results settle it when every
\* sub-unit has ended.
GatherDone(u, k) ==
    IF u.outer.state # "pending" THEN u.outer
    ELSE IF u.subs[k].ended = "raised"
    THEN [state |-> "exception", error |-> u.subs[k].error]
    ELSE IF \A j \in DOMAIN u.subs : u.subs[j].pc = "done"
    THEN [state |-> "result", error |-> None]
    ELSE u.outer

\* Sub-unit k ends, and gather's callback runs.
SubEnds(c, k, ended, op) ==
    LET u1 == [c.u EXCEPT !.subs[k].pc = "done", !.subs[k].ended = ended]
    IN  [c EXCEPT !.u = [u1 EXCEPT !.outer = GatherDone(u1, k)],
                  !.op = op, !.arg = ToString(k)]

\* _execute_step on the sub-step of sub-unit k: a branch succeeds.
SubDone(c, k, result) ==
    SubEnds([c EXCEPT !.u.subs[k].result = Some(result),
                      !.u.subs[k].status = COMPLETED,
                      !.u.subs[k].returned = StepReturn(result)],
            k, "returned", "sub_returned")

\* _execute_step on the sub-step of sub-unit k, lines 280-284.
SubFails(c, k, text) ==
    SubEnds([c EXCEPT !.u.subs[k].status = FAILED,
                      !.u.subs[k].error = Some(text)],
            k, "raised", "sub_raised")

SubSuspend(c, k, pc) ==
    [c EXCEPT !.u.subs[k].pc = pc, !.op = "sub_suspended", !.arg = ToString(k)]

\* execute_parallel_step, lines 263-270: the sub-unit builds its WorkflowStep
\* and runs _execute_step on it, up to its first suspension.
SubStart(c, k, now) ==
    LET kind == c.u.subs[k].kind
        c1 == [c EXCEPT !.u.subs[k].status = IN_PROGRESS]
        task_id == GenerateTaskId(SubStepName, now)
    IN  CASE kind = "task" ->
               SubDone([c1 EXCEPT !.m = create_task(@, SubStepName, << >>, now)],
                       k, "task_id")
          [] kind = "task_fn" ->
               SubDone([c1 EXCEPT !.m = execute_task(
                            create_task(@, SubStepName, << >>, now), task_id, now)],
                       k, "task")
          [] kind = "tool_missing" -> SubFails(c1, k, ToolNotFound(<<c.u.i, k>>))
          [] kind \in {"tool", "tool_raises"} -> SubSuspend(c1, k, "tool")
          [] kind = "delay" -> SubSuspend(c1, k, "delay")
          [] kind = "condition" -> SubDone(c1, k, "condition_result")
          [] kind = "condition_missing" -> SubFails(c1, k, NoConditionText)

\* One resumption of sub-unit k, up to its next suspension or its end.
SubResume(c, k, now) ==
    CASE c.u.subs[k].pc = "new" -> SubStart(c, k, now)
      [] c.u.subs[k].pc = "delay" -> SubDone(c, k, "delayed")
      [] c.u.subs[k].pc = "tool" ->
           IF c.u.subs[k].kind = "tool"
           THEN SubDone(c, k, "tool_result")
           ELSE SubFails(c, k, ToolErrorText)

\* asyncio.Task.cancel() on a workflow unit.  A unit that awaits a pending
\* gather passes the cancellation on to the sub-units that have not ended:
\* each is resumed with CancelledError, which nothing in it catches, before
\* the unit itself is (the loop runs what is ready in the order it became
\* ready), so they are ended here.  A gather that is already settled cancels
\* nothing.
CancelWf(us, u) ==
    IF us[u].pc = "done" THEN us
    ELSE IF us[u].pc = "gather" /\ us[u].outer.state = "pending"
    THEN [us EXCEPT ![u].must_cancel = TRUE,
                    ![u].outer = [state |-> "cancelled", error |-> None],
                    ![u].subs = [k \in DOMAIN @ |->
                                    IF @[k].pc = "done" THEN @[k]
                                    ELSE [@[k] EXCEPT !.pc = "done",
                                                      !.ended = "cancelled"]]]
    ELSE [us EXCEPT ![u].must_cancel = TRUE]

\* The unit that awaits a gather is resumed once the gather is settled, and
\* after the first steps of the sub-units, which became ready before it.
GatherWoken(u) ==
    /\ u.outer.state # "pending"
    /\ \A k \in DOMAIN u.subs : u.subs[k].pc # "new"

\* WorkflowEngine.create_workflow(name, steps=steps).
CreateWorkflow(name, steps) ==
    LET workflow_id == GenerateWorkflowId(name, clock)
    IN  /\ wfObjs' = Append(wfObjs, NewWorkflow(workflow_id, steps, clock))
        /\ workflows' = Put(workflows, workflow_id, Len(wfObjs) + 1)
        /\ lastOp' = Op("wf_create", workflow_id, 0, "")
        /\ UNCHANGED <<listed, tmVars, ptVars, wfRunning, wfUnits>>

\* WorkflowEngine.execute_workflow up to its await, lines 133-146.
ExecuteWorkflow(workflow_id) ==
    /\ IF workflow_id \notin DOMAIN workflows
       THEN /\ lastOp' = Op("wf_execute_none", workflow_id, 0, "ValueError")
            /\ UNCHANGED wfVars
       ELSE LET o == workflows[workflow_id]
            IN  /\ wfObjs' = [wfObjs EXCEPT ![o].status = WS_RUNNING,
                                             ![o].started_at = Some(clock)]
                /\ wfUnits' = Append(wfUnits, NewWfUnit(o))
                /\ wfRunning' = Put(wfRunning, workflow_id, Len(wfUnits) + 1)
                /\ lastOp' = Op("wf_execute", workflow_id, Len(wfUnits) + 1, "")
                /\ UNCHANGED workflows
    /\ UNCHANGED <<listed, tmVars, ptVars>>

\* pause_workflow and cancel_workflow, which differ in the status they set.
StopWorkflow(workflow_id, status, op) ==
    /\ IF workflow_id \in DOMAIN wfRunning
       THEN /\ wfUnits' = CancelWf(wfUnits, wfRunning[workflow_id])
            /\ wfObjs' = IF workflow_id \in DOMAIN workflows
                         THEN [wfObjs EXCEPT ![workflows[workflow_id]].status = status]
                         ELSE wfObjs
            /\ lastOp' = Op(op, workflow_id, 0, "true")
       ELSE /\ lastOp' = Op(op, workflow_id, 0, "false")
            /\ UNCHANGED <<wfUnits, wfObjs>>
    /\ UNCHANGED <<listed, tmVars, ptVars, workflows, wfRunning>>

\* WorkflowEngine.pause_workflow.
PauseWorkflow(workflow_id) == StopWorkflow(workflow_id, WS_PAUSED, "wf_pause")

\* WorkflowEngine.cancel_workflow.
CancelWorkflow(workflow_id) == StopWorkflow(workflow_id, WS_CANCELLED, "wf_cancel")

\* WorkflowEngine.delete_workflow.
DeleteWorkflow(workflow_id) ==
    /\ workflows' = Drop(workflows, workflow_id)
    /\ lastOp' = Op("wf_delete", workflow_id, 0,
                    IF workflow_id \in DOMAIN workflows THEN "true" ELSE "false")
    /\ UNCHANGED <<listed, tmVars, ptVars, wfObjs, wfRunning, wfUnits>>

\* The event loop resumes workflow unit u.
WfUnitResume(u) ==
    LET c == Resume([w |-> wfObjs[wfUnits[u].wf], m |-> Mgr, reg |-> wfRunning,
                     u |-> wfUnits[u], op |-> "", arg |-> ""], clock)
    IN  /\ u \in 1..Len(wfUnits)
        /\ wfUnits[u].pc # "done"
        /\ wfUnits[u].pc = "gather" => GatherWoken(wfUnits[u])
        /\ wfObjs' = [wfObjs EXCEPT ![wfUnits[u].wf] = c.w]
        /\ wfUnits' = [wfUnits EXCEPT ![u] = c.u]
        /\ wfRunning' = c.reg
        /\ SetMgr(c.m)
        /\ lastOp' = Op(c.op, c.w.id, u, c.arg)
        /\ UNCHANGED <<listed, clock, workflows, ptVars>>

\* The event loop resumes sub-unit k of workflow unit u.  The sub-units take
\* their first steps in the order gather created them.
SubUnitResume(u, k) ==
    LET c == SubResume([w |-> wfObjs[wfUnits[u].wf], m |-> Mgr, reg |-> wfRunning,
                        u |-> wfUnits[u], op |-> "", arg |-> ""], k, clock)
    IN  /\ u \in 1..Len(wfUnits)
        /\ k \in DOMAIN wfUnits[u].subs
        /\ wfUnits[u].subs[k].pc # "done"
        /\ wfUnits[u].subs[k].pc = "new"
              => \A j \in 1..(k - 1) : wfUnits[u].subs[j].pc # "new"
        /\ wfUnits' = [wfUnits EXCEPT ![u] = c.u]
        /\ SetMgr(c.m)
        /\ lastOp' = Op(c.op, c.w.id, u, c.arg)
        /\ UNCHANGED <<listed, clock, workflows, wfObjs, wfRunning, ptVars>>

(* ------------------------- the progress tracker ----------------------- *)

\* The ProgressState enumeration; its other members have the values of the
\* task statuses of the same names.
NOT_STARTED == "not_started"
PAUSED == "paused"
ProgressState == {NOT_STARTED, IN_PROGRESS, COMPLETED, FAILED, PAUSED}

\* sha256(f"meter:{name}:{timestamp}")[:16] and
\* sha256(f"update:{meter_id}:{timestamp}")[:8], modelled as GenerateTaskId is.
GenerateMeterId(name, now) == <<name, now>>
GenerateUpdateId(meter_id, now) == <<meter_id, now>>

\* The float 100.0, as a fraction like Percent.
Hundred == [num |-> 100, den |-> 1]

\* ProgressMeter(...) as create_meter builds it.
NewMeter(meter_id, total_steps) ==
    [id |-> meter_id, total_steps |-> total_steps, current_step |-> 0,
     progress |-> ZeroPercent, state |-> NOT_STARTED, started_at |-> None,
     estimated_completion |-> None, updates |-> << >>]

\* ApplyState with started_at stamped by every call that supplies IN_PROGRESS.
ApplyState_Restamp(mt, state, now) ==
    IF ~IsSet(state) THEN mt
    ELSE LET m1 == [mt EXCEPT !.state = state[1]]
         IN  IF state[1] = IN_PROGRESS
             THEN [m1 EXCEPT !.started_at = Some(now)]
             ELSE IF state[1] = COMPLETED
             THEN [m1 EXCEPT !.current_step = mt.total_steps,
                             !.progress = Hundred]
             ELSE m1

\* update_progress, lines 138-146: the state channel.
ApplyState(mt, state, now) ==
    IF ~IsSet(state) THEN mt
    ELSE LET m1 == [mt EXCEPT !.state = state[1]]
         IN  IF state[1] = IN_PROGRESS /\ ~IsSet(mt.started_at)
             THEN [m1 EXCEPT !.started_at = Some(now)]
             ELSE IF state[1] = COMPLETED
             THEN [m1 EXCEPT !.current_step = mt.total_steps,
                             !.progress = Hundred]
             ELSE m1

\* update_progress, lines 149-151: the step channel.
ApplyStep(mt, current_step) ==
    IF ~IsSet(current_step) THEN mt
    ELSE [mt EXCEPT !.current_step = current_step[1],
                    !.progress = Percent(current_step[1], mt.total_steps)]

\* update_progress, lines 154-156: the progress channel.  int() truncates,
\* which on a product that is not negative is the floor.
ApplyProgress(mt, progress) ==
    IF ~IsSet(progress) THEN mt
    ELSE LET p == Clamp(progress[1])
         IN  [mt EXCEPT !.progress = [num |-> p, den |-> 1],
                        !.current_step = (p * mt.total_steps) \div 100]

\* ApplyChannels with the progress channel applied before the step channel.
ApplyChannels_ProgressFirst(mt, current_step, progress, state, now) ==
    ApplyStep(ApplyProgress(ApplyState(mt, state, now), progress), current_step)

\* update_progress, lines 137-156: the three channels in the order of the code.
ApplyChannels(mt, current_step, progress, state, now) ==
    ApplyProgress(ApplyStep(ApplyState(mt, state, now), current_step), progress)

\* ProgressUpdate(...), lines 161-169.
NewUpdate(mt, message, now) ==
    [id |-> GenerateUpdateId(mt.id, now), entity_id |-> mt.id,
     progress |-> mt.progress, state |-> mt.state, message |-> message]

\* update_progress, lines 181-187: now + (elapsed / progress) * (100 - progress),
\* the seconds to go kept as a fraction.
Estimate(mt, now) ==
    IF IsSet(mt.started_at) /\ mt.state = IN_PROGRESS /\ mt.progress.num > 0
    THEN [mt EXCEPT !.estimated_completion =
              Some([at |-> now,
                    num |-> (now - mt.started_at[1])
                              * (100 * mt.progress.den - mt.progress.num),
                    den |-> mt.progress.num])]
    ELSE mt

\* The callbacks callers register: a coroutine function that returns, one
\* that raises an exception, and a plain function, whose result is no
\* awaitable so that the await raises TypeError at once.
CallbackKinds == {"returns", "raises", "sync"}

\* An update_progress call in its for loop: the meter object and the update
\* it holds, the callback k it is in, and the callbacks it has invoked so far
\* (history).
NewCall(o, update) ==
    [meter |-> o, update |-> update, k |-> 0, invoked |-> << >>, pc |-> "loop"]

RECURSIVE Notify_AbortOnFailure(_, _, _)
\* Notify that leaves the loop when the callback before k has failed.
Notify_AbortOnFailure(call, k, cbs) ==
    IF k > Len(cbs) \/ (k > 1 /\ cbs[k - 1] \in {"raises", "sync"})
    THEN [call EXCEPT !.pc = "estimate", !.k = 0]
    ELSE LET c1 == [call EXCEPT !.invoked = Append(@, k), !.k = k]
         IN  IF cbs[k] = "sync" THEN Notify_AbortOnFailure(c1, k + 1, cbs)
             ELSE [c1 EXCEPT !.pc = "in_callback"]

RECURSIVE Notify(_, _, _)
\* The for loop of lines 174-178 from callback k of the list cbs on, up to the
\* first callback that suspends; every exception of a callback is caught.
Notify(call, k, cbs) ==
    IF k > Len(cbs) THEN [call EXCEPT !.pc = "estimate", !.k = 0]
    ELSE LET c1 == [call EXCEPT !.invoked = Append(@, k), !.k = k]
         IN  IF cbs[k] = "sync" THEN Notify(c1, k + 1, cbs)
             ELSE [c1 EXCEPT !.pc = "in_callback"]

\* The rest of update_progress once the loop has ended.
Finish(mt, call, now) == IF call.pc = "estimate" THEN Estimate(mt, now) ELSE mt
Returned(call) == IF call.pc = "estimate" THEN [call EXCEPT !.pc = "done"] ELSE call

\* ProgressTracker.register_callback.
RegisterCallback(kind) ==
    /\ callbacks' = Append(callbacks, kind)
    /\ lastOp' = Op("pt_register", NoId, Len(callbacks) + 1, kind)
    /\ UNCHANGED <<listed, tmVars, wfVars, meters, meterObjs, ptCalls>>

\* ProgressTracker.create_meter(name, total_steps).
CreateMeter(name, total_steps) ==
    LET meter_id == GenerateMeterId(name, clock)
    IN  /\ meterObjs' = Append(meterObjs, NewMeter(meter_id, total_steps))
        /\ meters' = Put(meters, meter_id, Len(meterObjs) + 1)
        /\ lastOp' = Op("pt_create", meter_id, 0, "")
        /\ UNCHANGED <<listed, tmVars, wfVars, callbacks, ptCalls>>

\* The state argument of a call, for the history: "" when it is None.
StateName(state) == IF IsSet(state) THEN state[1] ELSE ""

\* The history entry of an update_progress call that found its meter: the
\* call's arguments and the clock reading it saw are kept with it.
UpdateOp(meter_id, call, current_step, progress, state, now) ==
    [op |-> "pt_update", id |-> meter_id, unit |-> call, arg |-> StateName(state),
     current_step |-> current_step, progress |-> progress, state |-> state,
     now |-> now]

\* ProgressTracker.update_progress, up to its first suspension in a callback.
UpdateProgress(meter_id, current_step, progress, state, message) ==
    /\ IF meter_id \notin DOMAIN meters
       THEN /\ lastOp' = Op("pt_update_none", meter_id, 0, "")
            /\ UNCHANGED <<meterObjs, ptCalls>>
       ELSE LET o == meters[meter_id]
                mt == ApplyChannels(meterObjs[o], current_step, progress, state, clock)
            IN  IF ~IsSet(message)
                THEN /\ meterObjs' = [meterObjs EXCEPT ![o] = Estimate(mt, clock)]
                     /\ lastOp' = UpdateOp(meter_id, 0, current_step, progress,
                                          state, clock)
                     /\ UNCHANGED ptCalls
                ELSE LET update == NewUpdate(mt, message[1], clock)
                         mt1 == [mt EXCEPT !.updates = Append(@, update)]
                         call == Notify(NewCall(o, update), 1, callbacks)
                     IN  /\ meterObjs' = [meterObjs EXCEPT ![o] = Finish(mt1, call, clock)]
                         /\ ptCalls' = Append(ptCalls, Returned(call))
                         /\ lastOp' = UpdateOp(meter_id, Len(ptCalls) + 1,
                                               current_step, progress, state, clock)
    /\ UNCHANGED <<listed, tmVars, wfVars, meters, callbacks>>

\* The callback an update_progress call is suspended in ends, by returning or
\* by raising, and the loop goes on.
CallbackEnds(c) ==
    LET call == Notify(ptCalls[c], ptCalls[c].k + 1, callbacks)
        o == ptCalls[c].meter
    IN  /\ c \in 1..Len(ptCalls)
        /\ ptCalls[c].pc = "in_callback"
        /\ ptCalls' = [ptCalls EXCEPT ![c] = Returned(call)]
        /\ meterObjs' = [meterObjs EXCEPT ![o] = Finish(@, call, clock)]
        /\ lastOp' = Op("pt_callback_ends", meterObjs[o].id, c, callbacks[ptCalls[c].k])
        /\ UNCHANGED <<listed, tmVars, wfVars, meters, callbacks>>

\* ProgressTracker.delete_meter.
DeleteMeter(meter_id) ==
    /\ meters' = Drop(meters, meter_id)
    /\ lastOp' = Op("pt_delete", meter_id, 0,
                    IF meter_id \in DOMAIN meters THEN "true" ELSE "false")
    /\ UNCHANGED <<listed, tmVars, wfVars, meterObjs, callbacks, ptCalls>>

(* --------------------------- specification ---------------------------- *)

\* The dependency lists a caller gives for a new task: other ids, known or not.
DepLists(task_id) ==
    {d \in UNION {[1..n -> (AllIds \cup {UnknownId}) \ {task_id}] : n \in 0..MaxDeps} :
        \A i, j \in DOMAIN d : i # j => d[i] # d[j]}

\* The arguments callers pass to update_task_status.
ProgressArgs == {None, Some(-5), Some(40)}
ErrorArgs == {None, Some(Msg(CallerErrorText, << >>))}

\* A caller's call on a task of the table counts against MaxCalls.
Counted(task_id) ==
    /\ task_id \in DOMAIN tasks => calls < MaxCalls
    /\ calls' = IF task_id \in DOMAIN tasks THEN calls + 1 ELSE calls

Init ==
    /\ clock = 0
    /\ tasks = << >>
    /\ running = << >>
    /\ units = << >>
    /\ calls = 0
    /\ workflows = << >>
    /\ wfObjs = << >>
    /\ wfRunning = << >>
    /\ wfUnits = << >>
    /\ meters = << >>
    /\ meterObjs = << >>
    /\ callbacks = << >>
    /\ ptCalls = << >>
    /\ listed = None
    /\ lastOp = Op("init", NoId, 0, "")

\* The steps every specification shares: the clock, delete, execute and the
\* execution units.
Common ==
    \/ Tick /\ UNCHANGED calls
    \/ \E id \in AllIds : DeleteTask(id) /\ Counted(id)
    \/ \E id \in AllIds : ExecuteTask(id) /\ UNCHANGED calls
    \/ \E u \in 1..Len(units) : UnitStart(u) /\ UNCHANGED calls
    \/ \E u \in 1..Len(units), v \in FnValues : UnitReturn(u, v) /\ UNCHANGED calls
    \/ \E u \in 1..Len(units) : UnitRaise(u) /\ UNCHANGED calls
    \/ \E u \in 1..Len(units) : UnitCancelled(u) /\ UNCHANGED calls

\* Callers that create tasks with dependency lists and set statuses without
\* the optional arguments.
Next ==
    \/ Common
    \/ \E name \in Names : \E deps \in DepLists(GenerateTaskId(name, clock)) :
          /\ GenerateTaskId(name, clock) \in DOMAIN tasks \/ Load < MaxLoad
          /\ CreateTask(name, deps)
          /\ UNCHANGED calls
    \/ \E id \in AllIds, status \in TaskStatus :
          UpdateTaskStatus(id, status, None, None, None) /\ Counted(id)

\* Callers that keep one task in the table and pass update_task_status its
\* optional arguments.
NextArgs ==
    \/ Common
    \/ \E name \in Names : \E deps \in DepLists(GenerateTaskId(name, clock)) :
          /\ DOMAIN tasks \subseteq {GenerateTaskId(name, clock)}
          /\ Load < MaxLoad
          /\ CreateTask(name, deps)
          /\ UNCHANGED calls
    \/ \E id \in AllIds, status \in TaskStatus :
       \E progress \in ProgressArgs, error \in ErrorArgs :
          UpdateTaskStatus(id, status, progress, None, error) /\ Counted(id)

vars == <<clock, tasks, running, units, calls, workflows, wfObjs, wfRunning,
         wfUnits, meters, meterObjs, callbacks, ptCalls, listed, lastOp>>

Spec == Init /\ [][Next]_vars

SpecArgs == Init /\ [][NextArgs]_vars

\* The names of callers that also pass the empty name.
AllNames == Names \cup {""}
NamedIds == {GenerateTaskId(n, t) : n \in AllNames, t \in 0..MaxClock}

\* Callers that create tasks of every name, the empty one included, without
\* dependencies.
NextNames ==
    \/ Tick /\ UNCHANGED calls
    \/ \E name \in AllNames :
          /\ GenerateTaskId(name, clock) \in DOMAIN tasks \/ Load < MaxLoad
          /\ CreateTask(name, << >>)
          /\ UNCHANGED calls
    \/ \E id \in NamedIds, status \in TaskStatus :
          UpdateTaskStatus(id, status, None, None, None) /\ Counted(id)
    \/ \E id \in NamedIds : DeleteTask(id) /\ Counted(id)
    \/ \E id \in NamedIds : ExecuteTask(id) /\ UNCHANGED calls
    \/ \E u \in 1..Len(units) : UnitStart(u) /\ UNCHANGED calls
    \/ \E u \in 1..Len(units), v \in FnValues : UnitReturn(u, v) /\ UNCHANGED calls
    \/ \E u \in 1..Len(units) : UnitRaise(u) /\ UNCHANGED calls
    \/ \E u \in 1..Len(units) : UnitCancelled(u) /\ UNCHANGED calls

SpecNames == Init /\ [][NextNames]_vars

\* The tasks of the tables list_tasks is called on, and the tables of n tasks
\* in insertion order.
ListedOwners == {None, Some("x")}
ListedWorkflows == {None, Some("w")}
ListedTags == {{}, {"t"}}
ListedTables(n) ==
    {[i \in 1..n |-> ListedTask(i, f[i][1], f[i][2], f[i][3], f[i][4],
                                 f[i][5], f[i][6])] :
        f \in [1..n -> {PENDING, COMPLETED} \X TaskPriority
                         \X (0..MaxClock) \X ListedOwners
                         \X ListedWorkflows \X ListedTags]}

\* The filters callers pass to list_tasks.
ListArgs ==
    [status : {None, Some(COMPLETED)},
     priority : {None, Some(HIGH)},
     assigned_to : {None, Some(""), Some("x")},
     workflow_id : {None, Some(""), Some("w")},
     tags : {None, Some({}), Some({"t"})}]

InitList ==
    /\ clock = 0
    /\ tasks = << >>
    /\ running = << >>
    /\ units = << >>
    /\ calls = 0
    /\ workflows = << >>
    /\ wfObjs = << >>
    /\ wfRunning = << >>
    /\ wfUnits = << >>
    /\ meters = << >>
    /\ meterObjs = << >>
    /\ callbacks = << >>
    /\ ptCalls = << >>
    /\ \E n \in 0..MaxListed :
          listed \in {[table |-> t, args |-> None, result |-> None] :
                         t \in ListedTables(n)}
    /\ lastOp = Op("init", NoId, 0, "")

NextList == \E args \in ListArgs : ListTasks(args)

\* list_tasks, called on every table with every combination of filters.
SpecList == InitList /\ [][NextList]_vars

\* The step lists a caller gives to create_workflow: every kind of step, the
\* steps named as tasks are, each depending on earlier steps or on a step the
\* workflow does not have.
StepDepLists(i) ==
    UNION {[1..n -> {UnknownStep} \cup 1..(i - 1)] : n \in 0..MaxStepDeps}
StepLists ==
    UNION {{[i \in 1..n |-> NewStep(i, name[i], kind[i], deps[i])] :
               name \in [1..n -> Names], kind \in [1..n -> StepKinds],
               deps \in {f \in [1..n -> StepDepLists(n)] :
                            \A i \in 1..n : f[i] \in StepDepLists(i)}} :
           n \in 0..MaxSteps}

\* The ids callers pass to the workflow engine: those create_workflow returned.
CreatedIds == {wfObjs[o].id : o \in 1..Len(wfObjs)}

\* A caller's pause, cancel or delete counts against MaxWfCalls.
WfCounted ==
    /\ calls < MaxWfCalls
    /\ calls' = calls + 1

\* Callers of the workflow engine, its units, and the units of the tasks its
\* steps launch.
NextWF ==
    \/ Tick /\ UNCHANGED calls
    \/ \E name \in Names, steps \in StepLists :
          /\ Len(wfObjs) < MaxWorkflows
          /\ CreateWorkflow(name, steps)
          /\ UNCHANGED calls
    \/ \E id \in CreatedIds :
          /\ id \in DOMAIN workflows => Len(wfUnits) < MaxWfUnits
          /\ ExecuteWorkflow(id)
          /\ UNCHANGED calls
    \/ \E id \in CreatedIds : PauseWorkflow(id) /\ WfCounted
    \/ \E id \in CreatedIds : CancelWorkflow(id) /\ WfCounted
    \/ \E id \in CreatedIds : DeleteWorkflow(id) /\ WfCounted
    \/ \E u \in 1..Len(wfUnits) : WfUnitResume(u) /\ UNCHANGED calls
    \/ \E u \in 1..Len(units) : UnitStart(u) /\ UNCHANGED calls
    \/ \E u \in 1..Len(units), v \in FnValues : UnitReturn(u, v) /\ UNCHANGED calls
    \/ \E u \in 1..Len(units) : UnitRaise(u) /\ UNCHANGED calls

SpecWF == Init /\ [][NextWF]_vars

\* The step lists of callers that pause and cancel repeatedly: steps without
\* dependencies that suspend, succeed at once or fail.
StopStepLists ==
    UNION {{[i \in 1..n |-> NewStep(i, "a", kind[i], << >>)] :
               kind \in [1..n -> {"delay", "condition", "tool_missing"}]} :
           n \in 0..MaxSteps}

\* A caller's pause or cancel counts against MaxStopCalls.
StopCounted ==
    /\ calls < MaxStopCalls
    /\ calls' = calls + 1

\* Callers that pause and cancel a workflow several times, before, during and
\* after its run.
NextStop ==
    \/ Tick /\ UNCHANGED calls
    \/ \E name \in Names, steps \in StopStepLists :
          /\ Len(wfObjs) < MaxWorkflows
          /\ CreateWorkflow(name, steps)
          /\ UNCHANGED calls
    \/ \E id \in CreatedIds :
          /\ id \in DOMAIN workflows => Len(wfUnits) < MaxWfUnits
          /\ ExecuteWorkflow(id)
          /\ UNCHANGED calls
    \/ \E id \in CreatedIds : PauseWorkflow(id) /\ StopCounted
    \/ \E id \in CreatedIds : CancelWorkflow(id) /\ StopCounted
    \/ \E u \in 1..Len(wfUnits) : WfUnitResume(u) /\ UNCHANGED calls

SpecStop == Init /\ [][NextStop]_vars

\* Callers that execute a workflow again, during or after its run, and pause
\* and cancel it, and the workflow units.
NextRe ==
    \/ Tick /\ UNCHANGED calls
    \/ \E name \in Names, steps \in StopStepLists :
          /\ Len(wfObjs) < MaxWorkflows
          /\ CreateWorkflow(name, steps)
          /\ UNCHANGED calls
    \/ \E id \in CreatedIds :
          /\ id \in DOMAIN workflows => Len(wfUnits) < MaxReUnits
          /\ ExecuteWorkflow(id)
          /\ UNCHANGED calls
    \/ \E id \in CreatedIds : PauseWorkflow(id) /\ StopCounted
    \/ \E id \in CreatedIds : CancelWorkflow(id) /\ StopCounted
    \/ \E u \in 1..Len(wfUnits) : WfUnitResume(u) /\ UNCHANGED calls

SpecRe == Init /\ [][NextRe]_vars

\* The step lists of callers that declare any dependencies: each step depends
\* on up to MaxAnyDeps of the steps of the workflow, itself and later ones
\* included, or on a step the workflow does not have.
AnyDepLists(n) ==
    UNION {[1..k -> {UnknownStep} \cup 1..n] : k \in 0..MaxAnyDeps}
AnyDepStepLists ==
    UNION {{[i \in 1..n |-> NewStep(i, "a", kind[i], deps[i])] :
               kind \in [1..n -> {"delay", "condition", "tool_missing"}],
               deps \in [1..n -> AnyDepLists(n)]} :
           n \in 0..MaxSteps}

\* Callers that create and execute workflows with any dependencies, and the
\* workflow units.
NextDeps ==
    \/ \E name \in Names, steps \in AnyDepStepLists :
          /\ Len(wfObjs) < MaxWorkflows
          /\ CreateWorkflow(name, steps)
          /\ UNCHANGED calls
    \/ \E id \in CreatedIds :
          /\ id \in DOMAIN workflows => Len(wfUnits) < MaxWfUnits
          /\ ExecuteWorkflow(id)
          /\ UNCHANGED calls
    \/ \E u \in 1..Len(wfUnits) : WfUnitResume(u) /\ UNCHANGED calls

\* The event loop resumes every unit that is ready: a sleep and the work of a
\* step end, and the unit is then run.
SpecDeps ==
    /\ Init
    /\ [][NextDeps]_vars
    /\ \A u \in 1..MaxWfUnits : WF_vars(WfUnitResume(u) /\ UNCHANGED calls)

\* The kinds of the sub-steps callers declare under a Parallel step.
SubKinds == {"tool", "tool_raises", "tool_missing", "delay", "condition",
             "condition_missing"}
\* The step lists of callers that use Parallel steps: a Parallel step, alone
\* or followed by a Delay step or by a ToolCall step of an unregistered tool.
ParallelStepLists ==
    {<<NewParallelStep(1, name, << >>, subs)>> \o tail :
        name \in Names,
        subs \in UNION {[1..n -> SubKinds] : n \in 0..MaxSubs},
        tail \in {<< >>, <<NewStep(2, "a", "delay", << >>)>>,
                         <<NewStep(2, "a", "tool_missing", << >>)>>}}

\* Callers of the workflow engine that use Parallel steps, the workflow units
\* and their sub-units.
NextPar ==
    \/ Tick /\ UNCHANGED calls
    \/ \E name \in Names, steps \in ParallelStepLists :
          /\ Len(wfObjs) < MaxWorkflows
          /\ CreateWorkflow(name, steps)
          /\ UNCHANGED calls
    \/ \E id \in CreatedIds :
          /\ id \in DOMAIN workflows => Len(wfUnits) < MaxWfUnits
          /\ ExecuteWorkflow(id)
          /\ UNCHANGED calls
    \/ \E id \in CreatedIds : PauseWorkflow(id) /\ WfCounted
    \/ \E id \in CreatedIds : CancelWorkflow(id) /\ WfCounted
    \/ \E u \in 1..Len(wfUnits) : WfUnitResume(u) /\ UNCHANGED calls
    \/ \E u \in 1..Len(wfUnits) : \E k \in DOMAIN wfUnits[u].subs :
          SubUnitResume(u, k) /\ UNCHANGED calls

SpecPar == Init /\ [][NextPar]_vars

\* The arguments callers pass to create_meter and update_progress.
TotalSteps == 1..MaxTotalSteps
StepArgs == {None, Some(-1), Some(1), Some(MaxTotalSteps + 1)}
MeterProgressArgs == {None, Some(-5), Some(50), Some(250)}
StateArgs == {None} \cup {Some(s) : s \in ProgressState}
MessageArgs == {None, Some("msg")}

\* The ids callers pass to the progress tracker: those create_meter returned,
\* and one it never returned.
MeterIds == {meterObjs[o].id : o \in 1..Len(meterObjs)} \cup {UnknownId}

\* A caller's update_progress or delete_meter that finds its meter counts
\* against MaxMeterCalls.
MeterCounted(meter_id) ==
    /\ meter_id \in DOMAIN meters => calls < MaxMeterCalls
    /\ calls' = IF meter_id \in DOMAIN meters THEN calls + 1 ELSE calls

\* Callers that register no callback and pass update_progress every
\* combination of its arguments.
NextPT ==
    \/ Tick /\ UNCHANGED calls
    \/ \E name \in Names, total_steps \in TotalSteps :
          /\ Len(meterObjs) < MaxMeters
          /\ CreateMeter(name, total_steps)
          /\ UNCHANGED calls
    \/ \E id \in DOMAIN meters : \E current_step \in StepArgs, progress \in MeterProgressArgs :
       \E state \in StateArgs, message \in MessageArgs :
          /\ calls < MaxMeterCalls
          /\ UpdateProgress(id, current_step, progress, state, message)
          /\ MeterCounted(id)
    \/ \E id \in MeterIds \ DOMAIN meters, message \in MessageArgs :
          UpdateProgress(id, None, None, Some(COMPLETED), message) /\ MeterCounted(id)
    \/ \E id \in MeterIds : DeleteMeter(id) /\ MeterCounted(id)

\* Callers that register callbacks and pass update_progress a progress, a
\* state and a message.
NextCB ==
    \/ Tick /\ UNCHANGED calls
    \/ \E kind \in CallbackKinds :
          /\ Len(callbacks) < MaxCallbacks
          /\ RegisterCallback(kind)
          /\ UNCHANGED calls
    \/ \E name \in Names, total_steps \in TotalSteps :
          /\ Len(meterObjs) < MaxMeters
          /\ CreateMeter(name, total_steps)
          /\ UNCHANGED calls
    \/ \E id \in MeterIds : \E progress \in {None, Some(50)} :
       \E state \in {None, Some(IN_PROGRESS)}, message \in MessageArgs :
          /\ id \in DOMAIN meters => calls < MaxMeterCalls
          /\ UpdateProgress(id, None, progress, state, message)
          /\ MeterCounted(id)
    \/ \E c \in 1..Len(ptCalls) : CallbackEnds(c) /\ UNCHANGED calls
    \/ \E id \in MeterIds : DeleteMeter(id) /\ MeterCounted(id)

SpecPT == Init /\ [][NextPT]_vars

\* A caller's update_progress that finds its meter counts against
\* MaxStartCalls.
StartCounted(meter_id) ==
    /\ meter_id \in DOMAIN meters => calls < MaxStartCalls
    /\ calls' = IF meter_id \in DOMAIN meters THEN calls + 1 ELSE calls

\* Callers that move a meter from state to state, with or without a progress,
\* often enough to start it, leave IN_PROGRESS and come back.
NextStart ==
    \/ Tick /\ UNCHANGED calls
    \/ \E name \in Names, total_steps \in TotalSteps :
          /\ Len(meterObjs) < MaxMeters
          /\ CreateMeter(name, total_steps)
          /\ UNCHANGED calls
    \/ \E id \in MeterIds : \E progress \in {None, Some(0), Some(50)} :
       \E state \in StateArgs, message \in MessageArgs :
          UpdateProgress(id, None, progress, state, message) /\ StartCounted(id)

SpecStart == Init /\ [][NextStart]_vars

SpecCB == Init /\ [][NextCB]_vars

(* ------------------------- task manager claims ------------------------ *)

Range(f) == {f[i] : i \in DOMAIN f}
ExecuteOps == {"execute_none", "execute_declined", "execute_launched"}
UnitOps == {"unit_unstarted", "unit_started", "unit_returned", "unit_raised",
            "unit_cancelled"}
Terminal == {COMPLETED, FAILED, CANCELLED}
\* The dependencies of task id that are unknown or not completed, now.
UnmetNow(id) ==
    {d \in Range(tasks[id].dependencies) :
        d \notin DOMAIN tasks \/ tasks[d].status # COMPLETED}
\* The units of task id that are launched and not yet terminated.
Outstanding(id) == {u \in 1..Len(units) : units[u].pc # "done" /\ units[u].task = id}

\* C1: execute on a task with an unknown or uncompleted dependency leaves it
\* Pending with an error that names every such dependency, launches nothing
\* (units and the registered handles are unchanged) and so never makes it
\* InProgress.
C1_DeclinedExecute ==
    [][\A id \in DOMAIN tasks :
          (lastOp'.op \in ExecuteOps /\ lastOp'.id = id /\ UnmetNow(id) # {})
          => /\ lastOp'.op = "execute_declined"
             /\ tasks'[id].status = PENDING
             /\ IsSet(tasks'[id].error)
             /\ tasks'[id].error[1].text # ""
             /\ UnmetNow(id) \subseteq Range(tasks'[id].error[1].ids)
             /\ units' = units
             /\ running' = running]_vars

\* C1 witness: an execute was declined for a task with two dependencies, one
\* of them completed and one not.
C1_Witness ==
    \E id \in DOMAIN tasks :
        /\ lastOp.op = "execute_declined" /\ lastOp.id = id
        /\ Len(tasks[id].dependencies) = 2
        /\ \E d \in Range(tasks[id].dependencies) :
              d \in DOMAIN tasks /\ tasks[d].status = COMPLETED
        /\ tasks[id].status = PENDING

\* C4 as stated: a returned value v gives Completed, progress 100 and result
\* {data: v} for every v; a cancelled unit gives Cancelled; a raised exception
\* gives Failed with its message.
C4_Original ==
    lastOp.id \in DOMAIN tasks =>
        LET t == tasks[lastOp.id]
        IN  /\ lastOp.op = "unit_returned"
               => /\ t.status = COMPLETED /\ t.progress = 100
                  /\ t.result = Some({<<"data", lastOp.arg>>})
            /\ lastOp.op \in {"unit_cancelled", "unit_unstarted"}
               => t.status = CANCELLED
            /\ lastOp.op = "unit_raised"
               => t.status = FAILED /\ t.error = Some(Msg(FnErrorText, << >>))

\* C4 amended: for a unit whose task is still in the table, a truthy value v
\* gives Completed, progress 100 and result {data: v}; a falsy value gives
\* Completed, progress 100 and the empty result {}; a unit cancelled while
\* suspended in the function gives Cancelled; a unit cancelled before its
\* first step leaves the record as it is; a raised exception gives Failed with
\* its message.
C4_UnitOutcome ==
    [][lastOp'.id \in DOMAIN tasks' =>
          LET t == tasks'[lastOp'.id]
              v == lastOp'.arg
          IN  /\ lastOp'.op = "unit_returned"
                 => /\ t.status = COMPLETED /\ t.progress = 100
                    /\ v = "7" => t.result = Some({<<"data", "7">>})
                    /\ v \in {"None", "0"} => t.result = Some({})
              /\ lastOp'.op = "unit_cancelled" => t.status = CANCELLED
              /\ lastOp'.op = "unit_unstarted" => tasks' = tasks
              /\ lastOp'.op = "unit_raised"
                 => t.status = FAILED /\ t.error = Some(Msg(FnErrorText, << >>))]_vars

\* C4 witness: a function returned 0 and the task is Completed with the empty
\* result.
C4_Witness ==
    /\ lastOp.op = "unit_returned" /\ lastOp.arg = "0"
    /\ lastOp.id \in DOMAIN tasks
    /\ tasks[lastOp.id].status = COMPLETED
    /\ tasks[lastOp.id].result = Some({})

\* C5: an execute that launches a unit finds every dependency in the table and
\* Completed, makes the task InProgress with progress 0 and registers the new
\* unit; when the function of a unit returns, its task becomes Completed.
C5_DependencyGating ==
    [][/\ lastOp'.op = "execute_launched"
          => LET id == lastOp'.id
             IN  /\ id \in DOMAIN tasks
                 /\ \A d \in Range(tasks[id].dependencies) :
                       d \in DOMAIN tasks /\ tasks[d].status = COMPLETED
                 /\ tasks'[id].status = IN_PROGRESS
                 /\ tasks'[id].progress = 0
                 /\ Len(units') = Len(units) + 1
                 /\ running'[id] = Len(units')
                 /\ units'[Len(units')].task = id
       /\ (lastOp'.op = "unit_returned" /\ lastOp'.id \in DOMAIN tasks')
          => tasks'[lastOp'.id].status = COMPLETED]_vars

\* C5 witness: a task with a dependency was launched and its function
\* returned.
C5_Witness ==
    /\ lastOp.op = "unit_returned"
    /\ lastOp.id \in DOMAIN tasks
    /\ tasks[lastOp.id].dependencies # << >>
    /\ tasks[lastOp.id].status = COMPLETED

\* C6 as stated: no execute call and no step of an execution unit changes the
\* status of a task that is Completed, Failed or Cancelled.
C6_TerminalStatuses ==
    [][\A id \in DOMAIN tasks \cap DOMAIN tasks' :
          (tasks[id].status \in Terminal /\ lastOp'.op \in ExecuteOps \cup UnitOps)
          => tasks'[id].status = tasks[id].status]_vars

\* C7 as stated: completed_at is set exactly when the status is Completed.
C7_CompletedAtIffCompleted ==
    \A id \in DOMAIN tasks :
        IsSet(tasks[id].completed_at) <=> tasks[id].status = COMPLETED

C9_OneUnitPerTask ==
    \A id \in AllIds : Cardinality(Outstanding(id)) <= 1

\* C10: updateStatus to Completed leaves progress 100 and completed_at set,
\* requests the cancellation of the unit registered for the id and leaves no
\* unit registered for it; updateStatus to another status changes neither the
\* units nor the registered handles.
C10_UpdateToCompleted ==
    [][lastOp'.op = "update" =>
          LET id == lastOp'.id
          IN  IF tasks'[id].status = COMPLETED
              THEN /\ tasks'[id].progress = 100
                   /\ IsSet(tasks'[id].completed_at)
                   /\ id \notin DOMAIN running'
                   /\ id \in DOMAIN running =>
                         \/ units[running[id]].pc = "done"
                         \/ units'[running[id]].must_cancel
              ELSE units' = units /\ running' = running]_vars

\* C10 witness: a caller completed a task whose unit was registered and still
\* running; the unit is cancelled and no longer registered.
C10_Witness ==
    /\ lastOp.op = "update"
    /\ lastOp.id \in DOMAIN tasks
    /\ tasks[lastOp.id].status = COMPLETED
    /\ lastOp.id \notin DOMAIN running
    /\ \E u \in Outstanding(lastOp.id) : units[u].must_cancel

\* C21: a create on the task, workflow or meter table returns an id that was
\* no key of that table before the call, so that it replaces no record.
C21_CreateReturnsFreshId ==
    [][ /\ lastOp'.op = "create" => lastOp'.id \notin DOMAIN tasks
        /\ lastOp'.op = "wf_create" => lastOp'.id \notin DOMAIN workflows
        /\ lastOp'.op = "pt_create" => lastOp'.id \notin DOMAIN meters
      ]_vars

\* C22: create_task with the empty name fails with InvalidArgument and adds
\* no record; with any other name it stores a record that is Pending with
\* progress 0.
C22_EmptyNameRejected ==
    [][ lastOp'.op = "create" =>
          IF lastOp'.id[1] = ""
          THEN tasks' = tasks /\ lastOp'.arg = "InvalidArgument"
          ELSE /\ lastOp'.id \in DOMAIN tasks'
               /\ tasks'[lastOp'.id].status = PENDING
               /\ tasks'[lastOp'.id].progress = 0
      ]_vars

\* The task t passes every filter of args that is supplied (is not None).
Matches(t, args) ==
    /\ IsSet(args.status) => t.status = args.status[1]
    /\ IsSet(args.priority) => t.priority = args.priority[1]
    /\ IsSet(args.assigned_to) => t.assigned_to = args.assigned_to
    /\ IsSet(args.workflow_id) => t.workflow_id = args.workflow_id
    /\ IsSet(args.tags) => t.tags \cap args.tags[1] # {}

\* C23: list_tasks returns exactly the tasks of the table that pass every
\* supplied filter, by priority Urgent, High, Medium, Low, then by ascending
\* creation time, then in the order of the table.
C23_ListFiltersAndSorts ==
    (listed # None /\ IsSet(listed.args)) =>
        LET r == listed.result[1]
            want == {i \in DOMAIN listed.table :
                        Matches(listed.table[i], listed.args[1])}
        IN  /\ Len(r) = Cardinality(want)
            /\ {r[i].id : i \in DOMAIN r} = want
            /\ \A i \in DOMAIN r : r[i] = listed.table[r[i].id]
            /\ \A i, j \in DOMAIN r :
                  i < j => /\ ~KeyLess(SortKey(r[j]), SortKey(r[i]))
                           /\ SortKey(r[i]) = SortKey(r[j]) => r[i].id < r[j].id

\* C24: when delete_task returns true the id is in neither the table nor the
\* registry and every unit of the task that has not ended is cancelled; a
\* delete_task that returns false changes nothing; and no step of a unit
\* adds a record to the table.
C24_DeleteRemovesAndCancels ==
    [][ /\ (lastOp'.op = "delete" /\ lastOp'.arg = "true") =>
              /\ lastOp'.id \notin DOMAIN tasks'
              /\ lastOp'.id \notin DOMAIN running'
              /\ \A u \in 1..Len(units) :
                    (units[u].task = lastOp'.id /\ units[u].pc # "done")
                    => units'[u].must_cancel
        /\ (lastOp'.op = "delete" /\ lastOp'.arg = "false") => tmVars' = tmVars
        /\ lastOp'.unit > 0 => DOMAIN tasks' \subseteq DOMAIN tasks
      ]_vars

\* C33: in every state each id registered in _running_tasks is the id of a
\* task of the table whose status is IN_PROGRESS, and the number of registered
\* ids (the running_tasks of get_task_statistics) is the number of tasks with
\* a unit that was launched and has not ended.
C33_RegisteredAreRunning ==
    /\ \A id \in DOMAIN running :
          /\ id \in DOMAIN tasks
          /\ tasks[id].status = IN_PROGRESS
    /\ Cardinality(DOMAIN running)
         = Cardinality({units[u].task : u \in {v \in 1..Len(units) : units[v].pc # "done"}})

(* ----------------------- workflow engine claims ----------------------- *)

\* The workflow unit whose run produced this state, and its workflow object.
EndedUnit == wfUnits[lastOp.unit]
EndedWorkflow == wfObjs[EndedUnit.wf]
Upto(n) == [j \in 1..n |-> j]

\* C2: when a step of a workflow fails during execute, no later step of the
\* declared sequence is started and the workflow's status ends Failed.
C2_StepFailureFailsWorkflow ==
    lastOp.op = "wf_failed" =>
        /\ EndedWorkflow.status = WS_FAILED
        /\ \A j \in 1..Len(EndedWorkflow.steps) :
              j > Len(EndedUnit.ran) => EndedWorkflow.steps[j].status = PENDING
        /\ EndedUnit.ran = Upto(Len(EndedUnit.ran))

\* C3: a run of a workflow of N >= 0 steps in which no step fails, and which
\* no caller pauses or cancels, ends with the workflow Completed at progress
\* 100, every step Completed and exactly N step executions, in declared order.
C3_CompletedRun ==
    (lastOp.op = "wf_completed" /\ calls = 0) =>
        /\ EndedWorkflow.status = WS_COMPLETED
        /\ IsHundred(EndedWorkflow.progress)
        /\ \A j \in 1..Len(EndedWorkflow.steps) :
              EndedWorkflow.steps[j].status = COMPLETED
        /\ EndedUnit.ran = Upto(Len(EndedWorkflow.steps))

\* Unit u ends in this step.
Ends(u) == wfUnits[u].pc # "done" /\ wfUnits'[u].pc = "done"

\* C13: when pause has returned true for a running workflow and its unit
\* then observes the cancellation and terminates, the workflow's status is
\* Paused.
C13_PauseEndsPaused ==
    [][\A u \in 1..Len(wfUnits) :
          (Ends(u) /\ wfUnits[u].must_cancel
                   /\ wfObjs[wfUnits[u].wf].status = WS_PAUSED)
              => wfObjs'[wfUnits[u].wf].status = WS_PAUSED]_vars

\* C14: a cancel that returns true sets the workflow Cancelled and cancels
\* its registered unit; a cancelled unit ends at its next resumption without
\* starting a step, and the workflow is then Cancelled (a unit cancelled
\* before its first step runs no handler and leaves the status as it is).
C14_CancelEndsCancelled ==
    [][/\ (lastOp'.op = "wf_cancel" /\ lastOp'.arg = "true") =>
            /\ wfUnits[wfRunning[lastOp'.id]].pc # "done"
                  => wfUnits'[wfRunning[lastOp'.id]].must_cancel
            /\ lastOp'.id \in DOMAIN workflows
                  => wfObjs'[workflows[lastOp'.id]].status = WS_CANCELLED
       /\ \A u \in 1..Len(wfUnits) :
            (wfUnits[u].must_cancel /\ wfUnits[u].pc # "done"
                                    /\ wfUnits'[u] # wfUnits[u]) =>
                /\ wfUnits'[u].pc = "done"
                /\ wfUnits'[u].ran = wfUnits[u].ran
                /\ (wfUnits[u].pc # "new"
                        \/ wfObjs[wfUnits[u].wf].status = WS_CANCELLED)
                      => wfObjs'[wfUnits[u].wf].status = WS_CANCELLED]_vars

\* C14 witness: cancel has returned true for a workflow of two steps whose
\* unit is suspended in the first: the workflow is Cancelled, the unit is to
\* be resumed with the cancellation and the second step has not started.
C14_Witness ==
    /\ lastOp.op = "wf_cancel"
    /\ lastOp.arg = "true"
    /\ lastOp.id \in DOMAIN workflows
    /\ wfObjs[workflows[lastOp.id]].status = WS_CANCELLED
    /\ Len(wfObjs[workflows[lastOp.id]].steps) = 2
    /\ wfObjs[workflows[lastOp.id]].steps[2].status = PENDING
    /\ wfUnits[wfRunning[lastOp.id]].must_cancel
    /\ wfUnits[wfRunning[lastOp.id]].pc \in {"delay", "tool"}
    /\ wfUnits[wfRunning[lastOp.id]].ran = <<1>>

\* The sub-units of workflow unit u have all ended.
SubsEnded(u) == \A k \in DOMAIN wfUnits[u].subs : wfUnits[u].subs[k].pc = "done"

\* C15: when a sub-step of a Parallel step fails, every sub-unit the step
\* launched has ended before the step is marked Failed, and no sub-unit is
\* still running once the workflow run that owns it has ended.
C15_SiblingsJoined ==
    \A u \in 1..Len(wfUnits) :
        /\ wfUnits[u].pc = "done" => SubsEnded(u)
        /\ \A i \in DOMAIN wfObjs[wfUnits[u].wf].steps :
              (/\ wfObjs[wfUnits[u].wf].steps[i].kind = "parallel"
               /\ wfObjs[wfUnits[u].wf].steps[i].status = FAILED) => SubsEnded(u)

\* C16: when every sub-step of a Parallel step has succeeded, the result
\* recorded on the step is the list, in declaration order and of the declared
\* length, of the results the sub-steps produced.
C16_OrderedSubResults ==
    \A u \in 1..Len(wfUnits) :
        \A i \in DOMAIN wfObjs[wfUnits[u].wf].steps :
            (/\ wfObjs[wfUnits[u].wf].steps[i].kind = "parallel"
             /\ wfObjs[wfUnits[u].wf].steps[i].status = COMPLETED
             /\ wfUnits[u].ran # << >>)
            => /\ DOMAIN wfUnits[u].subs = DOMAIN wfObjs[wfUnits[u].wf].steps[i].subs
               /\ wfObjs[wfUnits[u].wf].steps[i].result =
                     Some(ParallelResults([k \in DOMAIN wfUnits[u].subs |->
                                              wfUnits[u].subs[k].result]))

\* Workflow unit u is the only unit that has run its workflow object.
OnlyUnit(u) == \A v \in 1..Len(wfUnits) : wfUnits[v].wf = wfUnits[u].wf => v = u

\* The sub-steps declared before position k under a Parallel step that fail:
\* they are started first, and a registered tool may raise before it suspends.
FailsBefore(subs, k) ==
    {j \in 1..(k - 1) :
        subs[j] \in {"tool_missing", "condition_missing", "tool_raises"}}

\* C17 (amended): a ToolCall step whose tool is not in the registry invokes
\* no tool and, once run, is Failed with the message naming its tool, at top
\* level and under a Parallel step alike.  The owning Parallel step, when its
\* run is not cancelled first, ends Failed with the message of the first
\* sub-step to fail: the message naming the tool when no sub-step declared
\* before it fails.
C17_ToolNotFound ==
    \A u \in 1..Len(wfUnits) :
        LET steps == wfObjs[wfUnits[u].wf].steps
            subs == wfUnits[u].subs
        IN  OnlyUnit(u) =>
            /\ wfUnits[u].pc = "tool" => steps[wfUnits[u].i].kind # "tool_missing"
            /\ \A i \in DOMAIN steps :
                  steps[i].kind = "tool_missing" =>
                    /\ steps[i].result = None
                    /\ IF \E n \in DOMAIN wfUnits[u].ran : wfUnits[u].ran[n] = i
                       THEN /\ steps[i].status = FAILED
                            /\ steps[i].error = Some(ToolNotFound(<<i>>))
                       ELSE steps[i].status = PENDING
            /\ \A k \in DOMAIN subs :
                  subs[k].kind = "tool_missing" =>
                    /\ subs[k].pc \in {"new", "done"}
                    /\ subs[k].result = None
                    /\ subs[k].ended = "raised" =>
                          /\ subs[k].status = FAILED
                          /\ \E i \in DOMAIN steps :
                                /\ steps[i].kind = "parallel"
                                /\ subs[k].error = Some(ToolNotFound(<<i, k>>))
                    /\ subs[k].ended # "raised" => subs[k].status = PENDING
            /\ \A i \in DOMAIN steps :
                  (steps[i].kind = "parallel" /\ subs # << >>) =>
                    /\ steps[i].status = FAILED =>
                          /\ wfUnits[u].outer.state = "exception"
                          /\ steps[i].error = wfUnits[u].outer.error
                          /\ \E k \in DOMAIN subs :
                                /\ subs[k].ended = "raised"
                                /\ subs[k].error = steps[i].error
                    /\ \A k \in DOMAIN subs :
                          (/\ subs[k].kind = "tool_missing"
                           /\ FailsBefore(steps[i].subs, k) = {}
                           /\ wfUnits[u].pc = "done"
                           /\ ~wfUnits[u].must_cancel)
                          => /\ steps[i].status = FAILED
                             /\ steps[i].error = Some(ToolNotFound(<<i, k>>))

\* C17 witness: under a Parallel step the ToolCall sub-step of an
\* unregistered tool has failed while its sibling is still inside its tool,
\* and the run has ended with the Parallel step Failed with the message
\* naming the missing tool.
C17_Witness ==
    \E u \in 1..Len(wfUnits) :
        /\ OnlyUnit(u)
        /\ wfUnits[u].pc = "done"
        /\ ~wfUnits[u].must_cancel
        /\ Len(wfUnits[u].subs) = 2
        /\ wfUnits[u].subs[1].kind = "tool"
        /\ wfUnits[u].subs[1].pc = "tool"
        /\ wfUnits[u].subs[2].kind = "tool_missing"
        /\ wfUnits[u].subs[2].ended = "raised"
        /\ wfObjs[wfUnits[u].wf].steps[1].status = FAILED
        /\ wfObjs[wfUnits[u].wf].steps[1].error = Some(ToolNotFound(<<1, 2>>))

\* C17 as stated: whenever a ToolCall sub-step of an unregistered tool has
\* failed and the run has ended, the owning Parallel step is Failed with that
\* sub-step's message.
C17_Original ==
    \A u \in 1..Len(wfUnits) :
        \A i \in DOMAIN wfObjs[wfUnits[u].wf].steps :
            \A k \in DOMAIN wfUnits[u].subs :
                (/\ OnlyUnit(u)
                 /\ wfObjs[wfUnits[u].wf].steps[i].kind = "parallel"
                 /\ wfUnits[u].subs[k].kind = "tool_missing"
                 /\ wfUnits[u].subs[k].ended = "raised"
                 /\ wfUnits[u].pc = "done")
                => /\ wfObjs[wfUnits[u].wf].steps[i].status = FAILED
                   /\ wfObjs[wfUnits[u].wf].steps[i].error = wfUnits[u].subs[k].error

\* C18: within one execution of a workflow the top-level steps run in their
\* declared order: the steps passed to _execute_step are the first ones, in
\* order; a step has left Pending only if the execution has reached it and
\* every step declared before it is Completed; so at most one step is
\* InProgress.
C18_StepsInOrder ==
    \A u \in 1..Len(wfUnits) :
        LET steps == wfObjs[wfUnits[u].wf].steps
            ran == wfUnits[u].ran
        IN  OnlyUnit(u) =>
            /\ Len(ran) <= Len(steps)
            /\ ran = Upto(Len(ran))
            /\ \A j \in DOMAIN steps :
                  steps[j].status # PENDING =>
                    /\ j <= Len(ran)
                    /\ \A i \in 1..(j - 1) : steps[i].status = COMPLETED
            /\ \A i, j \in DOMAIN steps :
                  (steps[i].status = IN_PROGRESS /\ steps[j].status = IN_PROGRESS)
                  => i = j

\* C18 witness: the execution is suspended inside the second of two steps,
\* which is InProgress, after the first has Completed.
C18_Witness ==
    \E u \in 1..Len(wfUnits) :
        /\ OnlyUnit(u)
        /\ wfUnits[u].pc \in {"delay", "tool"}
        /\ wfUnits[u].i = 2
        /\ wfUnits[u].ran = <<1, 2>>
        /\ wfObjs[wfUnits[u].wf].steps[1].status = COMPLETED
        /\ wfObjs[wfUnits[u].wf].steps[2].status = IN_PROGRESS

\* C20, for the workflow engine: execute, pause, cancel and delete called
\* with an id that is not in the workflow table change nothing, raise nothing
\* and report the absence by what they return.
C20_UnknownIdIsNoOp ==
    [][ (/\ lastOp'.op \in {"wf_execute", "wf_execute_none", "wf_pause",
                            "wf_cancel", "wf_delete"}
         /\ lastOp'.id \notin DOMAIN workflows)
        => /\ wfVars' = wfVars
           /\ tmVars' = tmVars
           /\ ptVars' = ptVars
           /\ lastOp'.arg \in {"", "false"}
      ]_vars

\* C25: execute_workflow returns to its caller when the unit it awaits has
\* ended; the workflow is then no longer Running and no unit is registered
\* under its id.
C25_ExecuteReturnsWhenDone ==
    [][\A u \in 1..Len(wfUnits) :
          Ends(u) =>
            /\ wfObjs'[wfUnits[u].wf].status # WS_RUNNING
            /\ wfObjs[wfUnits[u].wf].id \notin DOMAIN wfRunning'
      ]_vars

\* A unit of the workflow with this id has been launched and has not ended.
HasLiveUnit(workflow_id) ==
    \E u \in 1..Len(wfUnits) :
        /\ wfObjs[wfUnits[u].wf].id = workflow_id
        /\ wfUnits[u].pc # "done"

\* C26: pause_workflow and cancel_workflow return true exactly when the
\* workflow has a unit, and when it has none (it was never executed, or its
\* run has ended) they return false and change no workflow.
C26_StopNeedsUnit ==
    [][ lastOp'.op \in {"wf_pause", "wf_cancel"} =>
          /\ lastOp'.arg = "true" <=> HasLiveUnit(lastOp'.id)
          /\ ~HasLiveUnit(lastOp'.id) => wfObjs' = wfObjs
      ]_vars

\* C27: a unit that waits for a dependency of step i goes on, at its next
\* resumption, to a later dependency of the same step or to the step itself,
\* whatever the dependency has become, and it waits only for a dependency
\* that is missing or not Completed; every workflow unit ends.
C27_DependenciesNeverBlock ==
    /\ [][\A u \in 1..Len(wfUnits) :
            /\ (wfUnits[u].pc = "dep_sleep" /\ wfUnits'[u] # wfUnits[u]) =>
                  \/ /\ wfUnits'[u].pc = "dep_sleep"
                     /\ wfUnits'[u].i = wfUnits[u].i
                     /\ wfUnits'[u].d > wfUnits[u].d
                  \/ \E n \in DOMAIN wfUnits'[u].ran :
                        wfUnits'[u].ran[n] = wfUnits[u].i
            /\ (wfUnits'[u].pc = "dep_sleep" /\ wfUnits'[u] # wfUnits[u]) =>
                  DepUnmet(wfObjs'[wfUnits'[u].wf],
                           wfObjs'[wfUnits'[u].wf].steps[wfUnits'[u].i]
                               .depends_on[wfUnits'[u].d])
       ]_vars
    /\ \A u \in 1..MaxWfUnits :
          (Len(wfUnits) >= u) ~> (Len(wfUnits) >= u /\ wfUnits[u].pc = "done")

\* C27 witness: the run of a workflow of two steps that depend on each other
\* has ended with both steps executed.
C27_Witness ==
    \E u \in 1..Len(wfUnits) :
        /\ wfUnits[u].pc = "done"
        /\ wfUnits[u].ran = <<1, 2>>
        /\ wfObjs[wfUnits[u].wf].status = WS_COMPLETED
        /\ \E n \in DOMAIN wfObjs[wfUnits[u].wf].steps[1].depends_on :
              wfObjs[wfUnits[u].wf].steps[1].depends_on[n] = 2
        /\ \E n \in DOMAIN wfObjs[wfUnits[u].wf].steps[2].depends_on :
              wfObjs[wfUnits[u].wf].steps[2].depends_on[n] = 1

\* C34: when every execution unit of a workflow has ended, whether its steps
\* were all done, a step failed, or it was paused or cancelled, no step of
\* the workflow has status IN_PROGRESS: each is PENDING, COMPLETED or FAILED.
C34_NoStepLeftInProgress ==
    \A u \in 1..Len(wfUnits) :
        (\A v \in 1..Len(wfUnits) :
            wfUnits[v].wf = wfUnits[u].wf => wfUnits[v].pc = "done")
        => \A j \in 1..Len(wfObjs[wfUnits[u].wf].steps) :
              wfObjs[wfUnits[u].wf].steps[j].status \in {PENDING, COMPLETED, FAILED}

\* C32: when a workflow reaches status COMPLETED, every unit that execute_task
\* launched for a Task step with an execution function has ended and no task
\* is left IN_PROGRESS, and every such step that is COMPLETED has a task of
\* its name that ended COMPLETED.  (The callers here launch tasks through
\* workflow steps only.)
C32_CompletedStepsHaveCompletedTasks ==
    lastOp.op = "wf_completed" =>
        /\ \A u \in 1..Len(units) : units[u].pc = "done"
        /\ \A id \in DOMAIN tasks : tasks[id].status # IN_PROGRESS
        /\ \A j \in 1..Len(EndedWorkflow.steps) :
              LET step == EndedWorkflow.steps[j]
              IN  (step.kind = "task_fn" /\ step.status = COMPLETED) =>
                     \E t \in 0..MaxClock :
                        /\ GenerateTaskId(step.name, t) \in DOMAIN tasks
                        /\ tasks[GenerateTaskId(step.name, t)].status = COMPLETED

\* The steps of workflow w whose status is COMPLETED.
CompletedSteps(w) == {j \in 1..Len(w.steps) : w.steps[j].status = COMPLETED}

\* C31: in every state, during and after a second execute of the same
\* workflow included, the progress of a workflow that has at least one step is
\* (number of its steps with status COMPLETED / number of its steps) * 100.
C31_ProgressCountsCompletedSteps ==
    \A o \in 1..Len(wfObjs) :
        Len(wfObjs[o].steps) >= 1 =>
            wfObjs[o].progress.num * Len(wfObjs[o].steps)
              = 100 * Cardinality(CompletedSteps(wfObjs[o])) * wfObjs[o].progress.den

\* C35: however two or more execute calls on one workflow id interleave, a
\* unit that ends deregisters itself without a KeyError, and while a unit of
\* the workflow has not ended the id is registered with a unit that has not
\* ended, so that cancel and pause return true and stop a running unit.
C35_UnitsStayRegistered ==
    /\ [](\A u \in 1..Len(wfUnits) :
             wfUnits[u].pc # "done" =>
                LET id == wfObjs[wfUnits[u].wf].id
                IN  /\ id \in DOMAIN wfRunning
                    /\ wfUnits[wfRunning[id]].pc # "done")
    /\ [][lastOp'.op \in {"wf_completed", "wf_cancelled", "wf_failed"}
             => lastOp'.arg # "KeyError"]_vars

(* ---------------------- progress tracker claims ----------------------- *)

\* The meter the last update_progress call found.
UpdatedMeter == meterObjs[meters[lastOp.id]]

\* C11: whatever update_progress calls are made, with whatever arguments, the
\* progress of every meter stays within [0,100] and its current_step within
\* [0,total_steps].
C11_MeterInRange ==
    \A o \in 1..Len(meterObjs) :
        /\ 0 <= meterObjs[o].progress.num
        /\ meterObjs[o].progress.num <= 100 * meterObjs[o].progress.den
        /\ 0 <= meterObjs[o].current_step
        /\ meterObjs[o].current_step <= meterObjs[o].total_steps

\* C12: an update_progress call that supplies state = Completed leaves the
\* meter with progress 100 and current_step = total_steps, whatever the
\* meter's values before and the other arguments of the call.
C12_CompletedForcesFull ==
    (lastOp.op = "pt_update" /\ lastOp.arg = COMPLETED) =>
        /\ IsHundred(UpdatedMeter.progress)
        /\ UpdatedMeter.current_step = UpdatedMeter.total_steps

\* The update_progress call c has returned in this step.
CallReturns(c) ==
    /\ ptCalls'[c].pc = "done"
    /\ c \in DOMAIN ptCalls => ptCalls[c].pc # "done"

\* C19: an update_progress call with a message appends exactly one update to
\* the log of its meter and invokes every registered callback once with it,
\* in registration order, whether callbacks fail or not, and then returns; a
\* call without a message appends no update and invokes no callback; nothing
\* else appends to a log.
C19_MessageNotifiesAll ==
    [][ /\ \A o \in DOMAIN meterObjs :
              Len(meterObjs'[o].updates) =
                  Len(meterObjs[o].updates)
                    + (IF /\ lastOp'.op = "pt_update"
                          /\ lastOp'.unit > 0
                          /\ ptCalls'[lastOp'.unit].meter = o
                       THEN 1 ELSE 0)
        /\ (lastOp'.op = "pt_update" /\ lastOp'.unit > 0) =>
              /\ Len(ptCalls') = Len(ptCalls) + 1
              /\ lastOp'.unit = Len(ptCalls')
              /\ LET log == meterObjs'[ptCalls'[lastOp'.unit].meter].updates
                 IN  log[Len(log)] = ptCalls'[lastOp'.unit].update
        /\ (lastOp'.op = "pt_update" /\ lastOp'.unit = 0) => ptCalls' = ptCalls
        /\ \A c \in DOMAIN ptCalls' :
              /\ ptCalls'[c].pc \in {"in_callback", "done"}
              /\ ptCalls'[c].invoked = Upto(Len(ptCalls'[c].invoked))
              /\ Len(ptCalls'[c].invoked) <= Len(callbacks')
              /\ ptCalls'[c].pc = "in_callback" =>
                    ptCalls'[c].k = Len(ptCalls'[c].invoked)
              /\ CallReturns(c) => ptCalls'[c].invoked = Upto(Len(callbacks'))
              /\ (c \in DOMAIN ptCalls /\ ptCalls[c].pc = "done") =>
                    ptCalls'[c] = ptCalls[c]
      ]_vars

\* C19 witness: a call with a message has returned after invoking both
\* registered callbacks, the first of which raised, and its update is the one
\* entry of the log of its meter.
C19_Witness ==
    /\ lastOp.op = "pt_callback_ends"
    /\ callbacks = <<"raises", "returns">>
    /\ ptCalls[lastOp.unit].pc = "done"
    /\ ptCalls[lastOp.unit].invoked = <<1, 2>>
    /\ meterObjs[ptCalls[lastOp.unit].meter].updates = <<ptCalls[lastOp.unit].update>>

\* C28: update_progress applies the state, then current_step, then progress.
\* A call that supplies progress leaves the meter with that progress clamped
\* to [0,100] and with current_step = floor(progress / 100 * total_steps),
\* whether or not it supplies current_step; a call that supplies
\* current_step and no progress leaves the meter with that step and its
\* share of total_steps, whatever state it supplies.
C28_ChannelOrder ==
    lastOp.op = "pt_update" =>
        /\ IsSet(lastOp.progress) =>
              /\ UpdatedMeter.progress.num
                   = Clamp(lastOp.progress[1]) * UpdatedMeter.progress.den
              /\ UpdatedMeter.current_step
                   = (Clamp(lastOp.progress[1]) * UpdatedMeter.total_steps) \div 100
        /\ (IsSet(lastOp.current_step) /\ ~IsSet(lastOp.progress)) =>
              /\ UpdatedMeter.current_step = lastOp.current_step[1]
              /\ UpdatedMeter.progress
                   = Percent(lastOp.current_step[1], UpdatedMeter.total_steps)

\* C28 witness: a call has supplied state Completed, a current_step beyond
\* total_steps and progress 50, and the meter of two steps is at 50 percent
\* and at step 1.
C28_Witness ==
    /\ lastOp.op = "pt_update"
    /\ lastOp.state = Some(COMPLETED)
    /\ lastOp.current_step = Some(MaxTotalSteps + 1)
    /\ lastOp.progress = Some(50)
    /\ UpdatedMeter.total_steps = 2
    /\ UpdatedMeter.current_step = 1
    /\ UpdatedMeter.progress.num = 50 * UpdatedMeter.progress.den

\* C29: started_at of a meter is unset when the meter is created; it changes
\* only from unset, in an update_progress call on that meter that supplies
\* state = IN_PROGRESS, to the clock reading of that call; such a call on a
\* meter whose started_at is unset always stamps it; and once set it is never
\* changed, whatever later calls supply.
C29_StartedAtStampedOnce ==
    [][/\ \A o \in 1..Len(meterObjs') :
             IF o > Len(meterObjs)
             THEN ~IsSet(meterObjs'[o].started_at)
             ELSE LET before == meterObjs[o].started_at
                      after == meterObjs'[o].started_at
                      starts == /\ lastOp'.op = "pt_update"
                                /\ meters[lastOp'.id] = o
                                /\ lastOp'.state = Some(IN_PROGRESS)
                  IN  /\ IsSet(before) => after = before
                      /\ (~IsSet(before) /\ starts) => after = Some(lastOp'.now)
                      /\ (~IsSet(before) /\ ~starts) => ~IsSet(after)
      ]_vars

\* C29 witness: a meter started at clock reading 0 was paused and, at reading
\* 1, a call has brought it back to IN_PROGRESS; its updates record the three
\* states and started_at is still 0.
C29_Witness ==
    /\ lastOp.op = "pt_update"
    /\ lastOp.state = Some(IN_PROGRESS)
    /\ lastOp.now = 1
    /\ Len(UpdatedMeter.updates) = 3
    /\ UpdatedMeter.updates[1].state = IN_PROGRESS
    /\ UpdatedMeter.updates[2].state = PAUSED
    /\ UpdatedMeter.updates[3].state = IN_PROGRESS
    /\ UpdatedMeter.started_at = Some(0)

\* C30: after every update_progress call that found its meter and has
\* returned, the meter's estimated_completion is set only if its state is
\* IN_PROGRESS, its started_at is set and its progress is above 0; in every
\* other resulting situation it is unset.
C30_EstimateOnlyWhileRunning ==
    (/\ lastOp.op = "pt_update"
     /\ lastOp.unit # 0 => ptCalls[lastOp.unit].pc = "done") =>
        (IsSet(UpdatedMeter.estimated_completion) =>
            /\ UpdatedMeter.state = IN_PROGRESS
            /\ IsSet(UpdatedMeter.started_at)
            /\ UpdatedMeter.progress.num > 0)

====
